---- MODULE Spec2Model ----
(***************************************************************************)
(* Dreamcodec conversion core (src-tauri/src/ffmpeg/mod.rs, lib.rs).       *)
(*                                                                         *)
(* The state is the FfmpegManager registry of ConversionTask records, the  *)
(* std::sync::Mutex around each task, the Mutex around the manager, the    *)
(* position and locals of each run_conversion_task future, the operating   *)
(* system's view of each spawned ffmpeg process and the output file.       *)
(* Every critical section of run_conversion_task is two steps: SupLock     *)
(* takes the task mutex, the section's action does its body and releases.  *)
(* The suspension points (.await) are steps of their own.                  *)
(***************************************************************************)
EXTENDS Integers, Sequences, FiniteSets, TLC

\* ------------------------------------------------------------------ bounds
\* Number of stderr lines the ffmpeg processes of one task may deliver in all.
MaxLines == 1

\* Number of stderr lines the progress parser is fed for one task.
MaxParsed == 3

\* The number of adapter names a detection may collect.
MaxAdapters == 3

\* --------------------------------------------------------------- constants
\* max_attempts for a GPU encoder and for any other encoder.
GpuAttempts == 4
CpuAttempts == 1
\* The attempt index of the CPU fallback, of the hardware decode and of the
\* forced NV12 pixel format.
CpuFallbackAttempt == 3
HwDecodeAttempt == 0
ForceNv12Attempt == 2

VARIABLES
    tasks,   \* FfmpegManager.tasks: task id -> ConversionTask (progress, pid, ...)
    lock,    \* holder of each task's Mutex: "free" or "sup"
    mgr,     \* holder of AppState.ffmpeg_manager's Mutex and its call's position
    sup,     \* each run_conversion_task future: position and local variables
    os,      \* the operating system's process of each task's current attempt
    file,    \* the output file of each task
    ret      \* what the Manager call that made this step returned and did

vars == <<tasks, lock, mgr, sup, os, file, ret>>

\* The task ids of a behaviour: the ids its initial state has a mutex, a
\* supervisor and a process slot for. Tasks share no state but the manager's
\* mutex, so Spec follows one task through every Manager call.
TaskIds == DOMAIN lock
OneTask == {1}

\* ------------------------------------------------------------ encoder names
\* Encoder names as the character strings the code searches with contains().
EncoderChars(e) ==
    CASE e = "libx264"    -> <<"l","i","b","x","2","6","4">>
      [] e = "libx265"    -> <<"l","i","b","x","2","6","5">>
      [] e = "h264_nvenc" -> <<"h","2","6","4","_","n","v","e","n","c">>
      [] e = "hevc_nvenc" -> <<"h","e","v","c","_","n","v","e","n","c">>
      [] e = "av1_nvenc"  -> <<"a","v","1","_","n","v","e","n","c">>
      [] e = "h264_amf"   -> <<"h","2","6","4","_","a","m","f">>
      [] e = "hevc_amf"   -> <<"h","e","v","c","_","a","m","f">>
      [] e = "av1_amf"    -> <<"a","v","1","_","a","m","f">>
      [] e = "h264_qsv"   -> <<"h","2","6","4","_","q","s","v">>
      [] e = "hevc_qsv"   -> <<"h","e","v","c","_","q","s","v">>
      [] e = "av1_qsv"    -> <<"a","v","1","_","q","s","v">>
      [] e = "vp9_qsv"    -> <<"v","p","9","_","q","s","v">>
      [] e = "libvpx-vp9" -> <<"l","i","b","v","p","x","-","v","p","9">>
      [] e = "prores_ks"  -> <<"p","r","o","r","e","s","_","k","s">>

\* str::contains
Contains(s, sub) ==
    \E i \in 1..(Len(s) - Len(sub) + 1) : SubSeq(s, i, i + Len(sub) - 1) = sub

EncoderContains(e, sub) == Contains(EncoderChars(e), sub)

is_nvenc(e) == EncoderContains(e, <<"n","v","e","n","c">>)
is_amf(e) == EncoderContains(e, <<"a","m","f">>)
is_qsv(e) == EncoderContains(e, <<"q","s","v">>)
is_gpu_encoder(e) == is_nvenc(e) \/ is_amf(e) \/ is_qsv(e)

\* The plan with one attempt too many.
max_attempts_extra(e) == IF is_gpu_encoder(e) THEN GpuAttempts + 1 ELSE CpuAttempts + 1

max_attempts(e) == IF is_gpu_encoder(e) THEN GpuAttempts ELSE CpuAttempts

cpu_fallback_encoder(e) ==
    IF EncoderContains(e, <<"h","2","6","4">>) \/ EncoderContains(e, <<"2","6","4">>)
    THEN "libx264"
    ELSE IF EncoderContains(e, <<"h","e","v","c">>) \/ EncoderContains(e, <<"2","6","5">>)
    THEN "libx265"
    ELSE "libx264"

\* A ladder whose last attempt keeps the configured encoder.
is_cpu_fallback_never(e, attempt) == FALSE

is_cpu_fallback(e, attempt) == is_gpu_encoder(e) /\ attempt = CpuFallbackAttempt
\* A hardware decode that is asked for on every attempt.
use_hw_decode_always(e, attempt) == is_gpu_encoder(e)

use_hw_decode(e, attempt) == is_gpu_encoder(e) /\ attempt = HwDecodeAttempt
force_nv12(e, attempt) == is_gpu_encoder(e) /\ attempt = ForceNv12Attempt

attempt_encoder(e, attempt) ==
    IF is_cpu_fallback(e, attempt) THEN cpu_fallback_encoder(e) ELSE e

\* GpuDetector::infer_codec: the codec family the program gives an encoder
\* name (the names here are lower case already).
infer_codec(e) ==
    LET has(sub) == EncoderContains(e, sub)
    IN  IF has(<<"2","6","4">>) \/ has(<<"h","2","6","4">>) THEN "h264"
        ELSE IF has(<<"2","6","5">>) \/ has(<<"h","e","v","c">>)
                \/ has(<<"x","2","6","5">>) THEN "hevc"
        ELSE IF has(<<"v","p","8">>) THEN "vp8"
        ELSE IF has(<<"v","p","9">>) THEN "vp9"
        ELSE IF has(<<"a","v","1">>) THEN "av1"
        ELSE IF has(<<"m","p","e","g","4">>) \/ has(<<"x","v","i","d">>) THEN "mpeg4"
        ELSE IF has(<<"m","p","e","g","2">>) THEN "mpeg2video"
        ELSE IF has(<<"m","p","e","g","1">>) THEN "mpeg1video"
        ELSE IF has(<<"w","m","v">>) THEN "wmv2"
        ELSE IF has(<<"f","l","v">>) THEN "flv1"
        ELSE IF has(<<"p","r","o","r","e","s">>) THEN "prores"
        ELSE IF has(<<"d","n","x","h","d">>) \/ has(<<"d","n","x","h","r">>) THEN "dnxhd"
        ELSE IF has(<<"c","i","n","e","f","o","r","m">>) \/ has(<<"c","f","h","d">>)
             THEN "cineform"
        ELSE IF has(<<"t","h","e","o","r","a">>) THEN "theora"
        ELSE "unknown"

\* The encoder names a task is started with.
Encoders == {"libx264", "h264_nvenc"}

\* The encoder names of the attempt ladder's check: every codec family with
\* every hardware API, and software encoders.
AllEncoders ==
    {"libx264", "libx265", "libvpx-vp9", "prores_ks",
     "h264_nvenc", "hevc_nvenc", "av1_nvenc",
     "h264_amf", "hevc_amf", "av1_amf",
     "h264_qsv", "hevc_qsv", "av1_qsv", "vp9_qsv"}


\* ---------------------------------------------------------------- records
Terminal == {"Completed", "Failed", "Cancelled"}
Statuses == {"Pending", "Running"} \cup Terminal

\* ConversionTask as start_conversion builds it. status is the variant of
\* ConversionStatus; the String a Failed carries is the one the same critical
\* section stores as error_message. pid 0 is None; process is whether
\* task.process is Some.
NewTask(enc) ==
    [encoder |-> enc, status |-> "Pending", percentage |-> 0, current_time |-> 0,
     duration |-> 0, log |-> <<>>, error_message |-> "None",
     process |-> FALSE, pid |-> 0]

\* ConversionProgress: the part of a task get_progress clones.
ProgressOf(task) ==
    [status |-> task.status, percentage |-> task.percentage,
     current_time |-> task.current_time, duration |-> task.duration,
     log |-> task.log, error_message |-> task.error_message]

NoProc == [state |-> "none", pid |-> 0, code |-> 0]
\* lines_read counts the lines read so far, for the bound MaxLines.
NoSup == [pc |-> "unstarted", attempt |-> 0, max_attempts |-> 0, encoder |-> "",
          line |-> "", status |-> "", problem |-> "", lines_read |-> 0]
MgrFree == [op |-> "free", id |-> 0, phase |-> "", ids |-> <<>>, i |-> 0]
NoRet == [op |-> "none", id |-> 0, result |-> "", kill |-> 0, snap |-> <<>>,
          probe |-> FALSE]

Registered == DOMAIN tasks

\* The process id the operating system gives the process of an attempt.
PidOf(t, attempt) == (t - 1) * GpuAttempts + attempt + 1

\* ------------------------------------------------------------- log entries
log_msg(e, attempt) ==
    CASE attempt = 1 -> "Retrying with software decode + GPU encode..."
      [] attempt = 2 -> "Retrying with forced NV12 pixel format..."
      [] attempt = 3 -> "GPU encode failed. Falling back to CPU software encoder..."
      [] OTHER -> IF is_gpu_encoder(e)
                  THEN "Starting GPU accelerated conversion."
                  ELSE "Starting software conversion."

\* The argument list as logged: the arguments that differ between attempts.
args_msg(e, attempt) ==
    "FFmpeg args:"
        \o (IF use_hw_decode(e, attempt) THEN " -hwaccel" ELSE "")
        \o " -c:v " \o attempt_encoder(e, attempt)
        \o (IF force_nv12(e, attempt) THEN " -pix_fmt nv12" ELSE "")

DescriptionEntries ==
    {"Retrying with software decode + GPU encode...",
     "Retrying with forced NV12 pixel format...",
     "GPU encode failed. Falling back to CPU software encoder...",
     "Starting GPU accelerated conversion.",
     "Starting software conversion."}

ArgsEntries == {args_msg(e, k) : e \in AllEncoders, k \in 0..GpuAttempts}

\* --------------------------------------------------------- progress parser
\* The stderr lines a process may write.
Lines == {"frame=1"}

\* duration_regex: the seconds of a Duration line, -1 when the line has none.
parsed_duration(line) ==
    CASE line = "Duration: 00:00:04.00" -> 4
      [] line = "Duration: 00:00:02.00" -> 2
      [] OTHER -> -1

\* time_regex / out_time_regex / out_time_us_regex / out_time_ms_regex: the
\* seconds of an elapsed-time line, -1 when the line has none.
parsed_time(line) ==
    CASE line = "time=00:00:01.00" -> 1
      [] line = "out_time=00:00:03.00" -> 3
      [] line = "out_time_us=2000000" -> 2
      [] line = "out_time_ms=6000000" -> 6
      [] OTHER -> -1

\* The newly parsed value in place of the larger one.
Max_latest(a, b) == a

\* No clamp.
Min_unclamped(a, b) == a

Max(a, b) == IF a >= b THEN a ELSE b
Min(a, b) == IF a <= b THEN a ELSE b

\* A loop body that takes the duration of every Duration line.
apply_line_overwrites(task, line) ==
    [task EXCEPT !.log = Append(@, line),
                 !.duration = IF parsed_duration(line) >= 0 THEN parsed_duration(line) ELSE @]

\* The body of the while-let loop of run_conversion_task on one line.
apply_line(task, line) ==
    LET t1 == [task EXCEPT !.log = Append(@, line)]
        t2 == IF t1.duration = 0 /\ parsed_duration(line) >= 0
              THEN [t1 EXCEPT !.duration = parsed_duration(line)]
              ELSE t1
        t3 == IF parsed_time(line) >= 0
              THEN [t2 EXCEPT !.current_time = Max(parsed_time(line), @)]
              ELSE t2
    IN  IF parsed_time(line) >= 0 /\ t3.duration > 0
        THEN [t3 EXCEPT !.percentage = Min((t3.current_time * 100) \div t3.duration, 100)]
        ELSE t3

\* ---------------------------------------------------------- process, file
\* kill_process(pid): the process with that id, when it runs, is to die.
kill_process(pid) ==
    [u \in TaskIds |->
        IF os[u].pid = pid /\ os[u].state = "running"
        THEN [os[u] EXCEPT !.state = "killed"]
        ELSE os[u]]

\* validate_output: None ("") or the problem found.
validate_output(f, probe) ==
    CASE f = "empty" -> "Output file is empty"
      [] f = "absent" -> "Cannot stat output file"
      [] probe = "spawn_failed" -> "Validation probe failed to start"
      [] f = "bad" -> "Corrupt video stream detected"
      [] OTHER -> ""

\* ------------------------------------------------------------------- Init
InitWith(ids) ==
    /\ tasks = <<>>
    /\ lock = [t \in ids |-> "free"]
    /\ mgr = MgrFree
    /\ sup = [t \in ids |-> NoSup]
    /\ os = [t \in ids |-> NoProc]
    /\ file = [t \in ids |-> "absent"]
    /\ ret = NoRet

Init == InitWith(OneTask)


\* ------------------------------------------------------- Task Supervisor
\* The messages of run_conversion_task, without the values format! puts in
\* them (the io error, the exit code); the error message of a corrupt output
\* keeps the validator's problem.
SpawnRetryLog == "FFmpeg start failed. Will retry..."
ValidationLog == "Output validation failed. Retrying..."
SpawnError == "Failed to start ffmpeg"
ExitError == "FFmpeg exited with code"
WaitError == "Failed to wait for FFmpeg process"
CorruptError == "Conversion produced corrupt output"

\* The positions of run_conversion_task at which it calls task_arc.lock().
\* A supervisor that takes the lock before it reads the next line.
LockPcs_before_read == {"config", "begin", "spawn_failed", "record", "read",
                        "apply", "exit", "val_failed", "complete"}

\* The positions at which the supervisor takes the task's mutex.
LockPcs == {"config", "begin", "spawn_failed", "record", "apply", "exit",
            "val_failed", "complete"}

Holds(t) == lock[t] = "sup"

SetTask(t, task) == tasks' = [tasks EXCEPT ![t] = task]
SetSup(t, s) == sup' = [sup EXCEPT ![t] = s]
\* A guard that is never dropped.
Release_keeps(t) == lock' = lock

\* The MutexGuard goes out of scope at the end of the block.
Release(t) == lock' = [lock EXCEPT ![t] = "free"]

\* A loop that steps over an index.
NextAttempt_skips(t) ==
    IF sup[t].attempt + 1 < sup[t].max_attempts
    THEN [sup[t] EXCEPT !.pc = "begin", !.attempt = @ + 2, !.encoder = "",
                        !.line = "", !.status = "", !.problem = ""]
    ELSE [sup[t] EXCEPT !.pc = "done"]

\* A loop that has no end: past the last index the supervisor stays at the
\* end of the body.
NextAttempt_no_return(t) ==
    IF sup[t].attempt + 1 < sup[t].max_attempts
    THEN [sup[t] EXCEPT !.pc = "begin", !.attempt = @ + 1, !.encoder = "",
                        !.line = "", !.status = "", !.problem = ""]
    ELSE [sup[t] EXCEPT !.pc = "cleanup"]

\* `continue`, or the end of the loop body: the next attempt, or the return
\* when the range 0..max_attempts is exhausted.
NextAttempt(t) ==
    IF sup[t].attempt + 1 < sup[t].max_attempts
    THEN [sup[t] EXCEPT !.pc = "begin", !.attempt = @ + 1, !.encoder = "",
                        !.line = "", !.status = "", !.problem = ""]
    ELSE [sup[t] EXCEPT !.pc = "done"]

IsLastAttempt(t) == ~(sup[t].attempt < sup[t].max_attempts - 1)

\* task_arc.lock(): blocks until the task's mutex is free.
SupLock(t) ==
    /\ t \in Registered
    /\ sup[t].pc \in LockPcs
    /\ lock[t] = "free"
    /\ lock' = [lock EXCEPT ![t] = "sup"]
    /\ ret' = NoRet
    /\ UNCHANGED <<tasks, mgr, sup, os, file>>

\* Lines 899-927: the configuration is cloned under the lock, and the number
\* of attempts fixed from the encoder name.
ReadConfig(t) ==
    /\ sup[t].pc = "config" /\ Holds(t)
    /\ SetSup(t, [sup[t] EXCEPT !.pc = "begin", !.attempt = 0,
                                !.max_attempts = max_attempts(tasks[t].encoder)])
    /\ Release(t)
    /\ ret' = NoRet
    /\ UNCHANGED <<tasks, mgr, os, file>>

\* A begin block that starts the log of every attempt afresh.
begin_task_clears(task, attempt) ==
    [task EXCEPT
        !.status = "Running",
        !.log = <<log_msg(task.encoder, attempt), args_msg(task.encoder, attempt)>>]

\* Lines 943-948 and 1048-1074: the attempt's encoder; status Running, the
\* attempt's description and arguments.
begin_task(task, attempt) ==
    [task EXCEPT
        !.status = "Running",
        !.log = @ \o <<log_msg(task.encoder, attempt), args_msg(task.encoder, attempt)>>]

BeginAttempt(t) ==
    /\ sup[t].pc = "begin" /\ Holds(t)
    /\ SetTask(t, begin_task(tasks[t], sup[t].attempt))
    /\ SetSup(t, [sup[t] EXCEPT
            !.pc = "spawn",
            !.encoder = attempt_encoder(tasks[t].encoder, sup[t].attempt)])
    /\ Release(t)
    /\ ret' = NoRet
    /\ UNCHANGED <<mgr, os, file>>

\* Line 1090, Ok: the operating system starts the process.
SpawnOk(t) ==
    /\ t \in Registered
    /\ sup[t].pc = "spawn"
    /\ os' = [os EXCEPT ![t] = [state |-> "running", pid |-> PidOf(t, sup[t].attempt),
                                 code |-> 0]]
    /\ SetSup(t, [sup[t] EXCEPT !.pc = "record"])
    /\ ret' = NoRet
    /\ UNCHANGED <<tasks, lock, mgr, file>>

\* Line 1090, Err.
SpawnErr(t) ==
    /\ t \in Registered
    /\ sup[t].pc = "spawn"
    /\ SetSup(t, [sup[t] EXCEPT !.pc = "spawn_failed"])
    /\ ret' = NoRet
    /\ UNCHANGED <<tasks, lock, mgr, os, file>>

\* Lines 1092-1104: a retry notice when attempts remain, else Failed.
spawn_failed_task(task, last) ==
    IF ~last
    THEN [task EXCEPT !.log = Append(@, SpawnRetryLog)]
    ELSE [task EXCEPT !.status = "Failed", !.error_message = SpawnError]

SpawnFailed(t) ==
    /\ sup[t].pc = "spawn_failed" /\ Holds(t)
    /\ SetTask(t, spawn_failed_task(tasks[t], IsLastAttempt(t)))
    /\ SetSup(t, IF IsLastAttempt(t) THEN [sup[t] EXCEPT !.pc = "done"]
                                     ELSE NextAttempt(t))
    /\ Release(t)
    /\ ret' = NoRet
    /\ UNCHANGED <<mgr, os, file>>

\* Lines 1113-1118: the child is stored, its id recorded, the child taken back.
RecordPid(t) ==
    /\ sup[t].pc = "record" /\ Holds(t)
    /\ SetTask(t, [tasks[t] EXCEPT !.process = FALSE, !.pid = os[t].pid])
    /\ SetSup(t, [sup[t] EXCEPT !.pc = "read"])
    /\ Release(t)
    /\ ret' = NoRet
    /\ UNCHANGED <<mgr, os, file>>

\* Line 1124, Ok(Some(line)): the process, still alive, wrote a line, one of
\* `lines`, and the processes of the task have written fewer than `most`.
ReadLineFrom(t, lines, most) ==
    /\ t \in Registered
    /\ sup[t].pc = "read"
    /\ os[t].state \in {"running", "killed"}
    /\ sup[t].lines_read < most
    /\ \E line \in lines :
        SetSup(t, [sup[t] EXCEPT !.pc = "apply", !.line = line, !.lines_read = @ + 1])
    /\ ret' = NoRet
    /\ UNCHANGED <<tasks, lock, mgr, os, file>>

ReadLine(t) == ReadLineFrom(t, Lines, MaxLines)

\* Line 1124, Ok(None): the process has exited and its stderr is closed.
ReadEof(t) ==
    /\ t \in Registered
    /\ sup[t].pc = "read"
    /\ os[t].state = "exited"
    /\ SetSup(t, [sup[t] EXCEPT !.pc = "wait"])
    /\ ret' = NoRet
    /\ UNCHANGED <<tasks, lock, mgr, os, file>>

\* Lines 1125-1160.
ApplyLine(t) ==
    /\ sup[t].pc = "apply" /\ Holds(t)
    /\ SetTask(t, apply_line(tasks[t], sup[t].line))
    /\ SetSup(t, [sup[t] EXCEPT !.pc = "read", !.line = ""])
    /\ Release(t)
    /\ ret' = NoRet
    /\ UNCHANGED <<mgr, os, file>>

\* Line 1163, Err: wait() itself fails.
WaitErr(t) ==
    /\ t \in Registered
    /\ sup[t].pc = "wait"
    /\ os[t].state = "exited"
    /\ SetSup(t, [sup[t] EXCEPT !.pc = "exit",
                                !.status = "wait_error"])
    /\ ret' = NoRet
    /\ UNCHANGED <<tasks, lock, mgr, os, file>>

\* The exit status wait() reports for an exit code: 0 is success; any other
\* code is a failure with that code, the death by the kill signal (-9) a
\* failure with no code.
exit_status(code) ==
    CASE code = 0 -> "success"
      [] code = -9 -> "killed"
      [] OTHER -> "failure"

\* Line 1163: wait() reaps the exited process.
Wait(t) ==
    /\ t \in Registered
    /\ sup[t].pc = "wait"
    /\ os[t].state = "exited"
    /\ os' = [os EXCEPT ![t] = NoProc]
    /\ SetSup(t, [sup[t] EXCEPT !.pc = "exit", !.status = exit_status(os[t].code)])
    /\ ret' = NoRet
    /\ UNCHANGED <<tasks, lock, mgr, file>>

\* Lines 1164-1191: the handle and the pid are cleared; a status that is not
\* a success marks the task Failed.
exit_task(task, status) ==
    CASE status = "success" ->
            [task EXCEPT !.process = FALSE, !.pid = 0]
      [] status = "wait_error" ->
            [task EXCEPT !.process = FALSE, !.pid = 0,
                         !.status = "Failed", !.error_message = WaitError]
      [] OTHER ->
            [task EXCEPT !.process = FALSE, !.pid = 0,
                         !.status = "Failed", !.error_message = ExitError]

\* Lines 1164-1191 and the test of line 1196.
HandleExit(t) ==
    /\ sup[t].pc = "exit" /\ Holds(t)
    /\ SetTask(t, exit_task(tasks[t], sup[t].status))
    /\ SetSup(t, [sup[t] EXCEPT
            !.pc = IF sup[t].status = "success" THEN "validate" ELSE "cleanup"])
    /\ Release(t)
    /\ ret' = NoRet
    /\ UNCHANGED <<mgr, os, file>>

\* Line 1197: validate_output and its decode probe.
Validate(t) ==
    /\ t \in Registered
    /\ sup[t].pc = "validate"
    /\ \E probe \in {"ran", "spawn_failed"} :
        LET problem == validate_output(file[t], probe)
        IN  SetSup(t, [sup[t] EXCEPT
                !.pc = IF problem = "" THEN "complete" ELSE "val_failed",
                !.problem = problem])
    /\ ret' = NoRet
    /\ UNCHANGED <<tasks, lock, mgr, os, file>>

\* A last attempt that accepts the output the validator refused.
val_failed_task_accepts(task, problem, last) ==
    [task EXCEPT !.log = Append(@, ValidationLog),
                 !.status = IF last THEN "Completed" ELSE @]

\* Lines 1198-1211: the notice is logged; the last attempt marks the task
\* Failed with the validator's problem.
val_failed_task(task, problem, last) ==
    IF ~last
    THEN [task EXCEPT !.log = Append(@, ValidationLog)]
    ELSE [task EXCEPT !.log = Append(@, ValidationLog),
                      !.status = "Failed",
                      !.error_message = CorruptError \o ": " \o problem]

\* A removal that leaves the file where it is.
remove_file_keeps(f) == f

\* std::fs::remove_file on the output file (lines 1203 and 1224).
remove_file(f) == "absent"

ValFailed(t) ==
    /\ sup[t].pc = "val_failed" /\ Holds(t)
    /\ SetTask(t, val_failed_task(tasks[t], sup[t].problem, IsLastAttempt(t)))
    /\ file' = [file EXCEPT ![t] = IF ~IsLastAttempt(t) THEN remove_file(@) ELSE @]
    /\ SetSup(t, IF IsLastAttempt(t) THEN [sup[t] EXCEPT !.pc = "done"]
                                     ELSE NextAttempt(t))
    /\ Release(t)
    /\ ret' = NoRet
    /\ UNCHANGED <<mgr, os>>

\* A completion that leaves the percentage where the last line put it.
complete_task_status_only(task) == [task EXCEPT !.status = "Completed"]

\* Lines 1214-1219.
complete_task(task) == [task EXCEPT !.status = "Completed", !.percentage = 100]

Complete(t) ==
    /\ sup[t].pc = "complete" /\ Holds(t)
    /\ SetTask(t, complete_task(tasks[t]))
    /\ SetSup(t, [sup[t] EXCEPT !.pc = "done"])
    /\ Release(t)
    /\ ret' = NoRet
    /\ UNCHANGED <<mgr, os, file>>

\* Lines 1222-1226: the partial output is removed when attempts remain.
Cleanup(t) ==
    /\ t \in Registered
    /\ sup[t].pc = "cleanup"
    /\ file' = [file EXCEPT ![t] = IF ~IsLastAttempt(t) THEN remove_file(@) ELSE @]
    /\ SetSup(t, NextAttempt(t))
    /\ ret' = NoRet
    /\ UNCHANGED <<tasks, lock, mgr, os>>

\* ------------------------------------------------------- the ffmpeg process
\* The process ends by itself, with exit code 0 or 1, leaving its output.
ProcExit(t) ==
    /\ os[t].state = "running"
    /\ \E code \in {0, 1} :
        /\ os' = [os EXCEPT ![t].state = "exited", ![t].code = code]
        /\ \E f \in IF code = 0 THEN {"good", "bad", "empty", "absent"}
                                ELSE {"bad", "absent"} :
            file' = [file EXCEPT ![t] = f]
    /\ ret' = NoRet
    /\ UNCHANGED <<tasks, lock, mgr, sup>>

\* The process dies of the kill signal it was sent.
ProcDie(t) ==
    /\ os[t].state = "killed"
    /\ os' = [os EXCEPT ![t].state = "exited", ![t].code = -9]
    /\ \E f \in {"bad", "absent"} : file' = [file EXCEPT ![t] = f]
    /\ ret' = NoRet
    /\ UNCHANGED <<tasks, lock, mgr, sup>>


\* ---------------------------------------------------------------- Manager
\* The ids a caller may pass: an id is unknown until start registers it.
CallIds == TaskIds

\* Uuid::new_v4(): an id no task has.
FreshId == Cardinality(Registered) + 1

\* Vec orders of the keys of the HashMap.
KeyOrders(S) ==
    {s \in [1..Cardinality(S) -> S] : \A i, j \in 1..Cardinality(S) : s[i] = s[j] => i = j}

\* lib.rs start_conversion, under the manager lock, and
\* FfmpegManager::start_conversion: the task is registered Pending and its
\* supervisor spawned.
Start(enc) ==
    /\ mgr.op = "free"
    /\ FreshId \in TaskIds
    /\ tasks' = [t \in Registered \cup {FreshId} |->
                    IF t \in Registered THEN tasks[t] ELSE NewTask(enc)]
    /\ sup' = [sup EXCEPT ![FreshId] = [NoSup EXCEPT !.pc = "config"]]
    /\ ret' = [NoRet EXCEPT !.op = "start", !.id = FreshId, !.result = "Ok"]
    /\ UNCHANGED <<lock, mgr, os, file>>

\* lib.rs get_conversion_progress takes the manager lock; get_progress of an
\* id that is not registered returns None at once.
ProgressCall(id) ==
    /\ mgr.op = "free"
    /\ IF id \in Registered
       THEN /\ mgr' = [MgrFree EXCEPT !.op = "progress", !.id = id]
            /\ ret' = NoRet
       ELSE /\ mgr' = mgr
            /\ ret' = [NoRet EXCEPT !.op = "progress", !.id = id, !.result = "None"]
    /\ UNCHANGED <<tasks, lock, sup, os, file>>

\* get_progress: t.lock() blocks until the task's mutex is free, then the
\* progress is cloned and both locks are released.
ProgressReturn ==
    /\ mgr.op = "progress"
    /\ lock[mgr.id] = "free"
    /\ ret' = [NoRet EXCEPT !.op = "progress", !.id = mgr.id, !.result = "Some",
                            !.snap = <<ProgressOf(tasks[mgr.id])>>]
    /\ mgr' = MgrFree
    /\ UNCHANGED <<tasks, lock, sup, os, file>>

\* A cancel that does not try the lock.
cancel_applies_locked(id) == id \in Registered /\ tasks[id].status \notin Terminal

\* A cancel that does not look at the status.
cancel_applies_terminal(id) == id \in Registered /\ lock[id] = "free"

\* cancel_conversion, lines 756-769: whether the call gets to cancel the task.
cancel_applies(id) ==
    /\ id \in Registered
    /\ lock[id] = "free"
    /\ tasks[id].status \notin Terminal

\* cancel_conversion, lines 762-766: the process id the call kills, 0 for none.
\* task.process is the child's handle, whose start_kill kills the child.
cancel_kills(id) ==
    IF ~cancel_applies(id) THEN 0
    ELSE IF tasks[id].process THEN os[id].pid
    ELSE tasks[id].pid

\* A cancel that reports success for any id.
cancel_result_ok(id) == "Ok"

cancel_result(id) ==
    IF id \in Registered THEN "Ok" ELSE "Err(Task not found)"

\* A cancel that takes the task out of the registry.
cancel_conversion_removes(id) ==
    /\ tasks' = [t \in Registered \ {id} |-> tasks[t]]
    /\ os' = os

\* A cancel that marks every task of the registry it may cancel.
cancel_conversion_every(id) ==
    /\ tasks' = [t \in Registered |->
                    IF cancel_applies(id) /\ cancel_applies(t)
                    THEN [tasks[t] EXCEPT !.status = "Cancelled"]
                    ELSE tasks[t]]
    /\ os' = IF cancel_kills(id) # 0 THEN kill_process(cancel_kills(id)) ELSE os

\* FfmpegManager::cancel_conversion.
cancel_conversion(id) ==
    /\ tasks' = IF cancel_applies(id)
                THEN [tasks EXCEPT ![id].status = "Cancelled"]
                ELSE tasks
    /\ os' = IF cancel_kills(id) # 0 THEN kill_process(cancel_kills(id)) ELSE os

\* lib.rs cancel_conversion: the manager lock, then cancel_conversion.
Cancel(id) ==
    /\ mgr.op = "free"
    /\ cancel_conversion(id)
    /\ ret' = [NoRet EXCEPT !.op = "cancel", !.id = id, !.result = cancel_result(id),
                            !.kill = cancel_kills(id)]
    /\ UNCHANGED <<lock, mgr, sup, file>>

\* lib.rs on_window_event takes the manager lock; cancel_all, line 782.
CancelAllCall ==
    /\ mgr.op = "free"
    /\ \E ids \in KeyOrders(Registered) :
        mgr' = [MgrFree EXCEPT !.op = "cancel_all", !.phase = "kill", !.ids = ids, !.i = 1]
    /\ ret' = NoRet
    /\ UNCHANGED <<tasks, lock, sup, os, file>>

\* cancel_all, lines 785-793: the pid the kill pass kills for a task, 0 for none.
cancel_all_kills(id) ==
    IF lock[id] = "free" THEN tasks[id].pid ELSE 0

\* cancel_all, lines 785-793: one iteration of the kill pass.
CancelAllKill ==
    /\ mgr.op = "cancel_all" /\ mgr.phase = "kill"
    /\ mgr.i <= Len(mgr.ids)
    /\ LET id == mgr.ids[mgr.i]
       IN  /\ os' = IF cancel_all_kills(id) # 0
                    THEN kill_process(cancel_all_kills(id))
                    ELSE os
           /\ ret' = [NoRet EXCEPT !.op = "cancel_all_kill", !.id = id,
                                   !.kill = cancel_all_kills(id)]
    /\ mgr' = [mgr EXCEPT !.i = @ + 1]
    /\ UNCHANGED <<tasks, lock, sup, file>>

\* cancel_all, line 796: the grace delay.
CancelAllSleep ==
    /\ mgr.op = "cancel_all" /\ mgr.phase = "kill"
    /\ mgr.i > Len(mgr.ids)
    /\ mgr' = [mgr EXCEPT !.phase = "cancel", !.i = 1]
    /\ ret' = NoRet
    /\ UNCHANGED <<tasks, lock, sup, os, file>>

\* cancel_all, lines 799-801: one iteration of the cancel pass.
CancelAllCancel ==
    /\ mgr.op = "cancel_all" /\ mgr.phase = "cancel"
    /\ mgr.i <= Len(mgr.ids)
    /\ LET id == mgr.ids[mgr.i]
       IN  /\ cancel_conversion(id)
           /\ ret' = [NoRet EXCEPT !.op = "cancel_all_cancel", !.id = id,
                                   !.result = cancel_result(id),
                                   !.kill = cancel_kills(id)]
    /\ mgr' = [mgr EXCEPT !.i = @ + 1]
    /\ UNCHANGED <<lock, sup, file>>

\* cancel_all returns and on_window_event releases the manager lock.
CancelAllReturn ==
    /\ mgr.op = "cancel_all" /\ mgr.phase = "cancel"
    /\ mgr.i > Len(mgr.ids)
    /\ mgr' = MgrFree
    /\ ret' = [NoRet EXCEPT !.op = "cancel_all", !.result = "returned"]
    /\ UNCHANGED <<tasks, lock, sup, os, file>>

\* ------------------------------------------------------------------- Next
Supervisor(t) ==
    \/ SupLock(t)
    \/ ReadConfig(t)
    \/ BeginAttempt(t)
    \/ SpawnOk(t)
    \/ SpawnErr(t)
    \/ SpawnFailed(t)
    \/ RecordPid(t)
    \/ ReadLine(t)
    \/ ReadEof(t)
    \/ ApplyLine(t)
    \/ Wait(t)
    \/ WaitErr(t)
    \/ HandleExit(t)
    \/ Validate(t)
    \/ ValFailed(t)
    \/ Complete(t)
    \/ Cleanup(t)

Process(t) ==
    \/ ProcExit(t)
    \/ ProcDie(t)

Manager ==
    \/ \E enc \in Encoders : Start(enc)
    \/ \E id \in CallIds : ProgressCall(id)
    \/ ProgressReturn
    \/ \E id \in CallIds : Cancel(id)
    \/ CancelAllCall
    \/ CancelAllKill
    \/ CancelAllSleep
    \/ CancelAllCancel
    \/ CancelAllReturn

Next ==
    \/ \E t \in TaskIds : Supervisor(t)
    \/ \E t \in TaskIds : Process(t)
    \/ Manager

Spec == Init /\ [][Next]_vars

\* The attempt ladder alone: one task of any encoder name, its supervisor and
\* its processes, and no Manager call but start.
NextLadder ==
    \/ \E enc \in AllEncoders : Start(enc)
    \/ \E t \in TaskIds : Supervisor(t)
    \/ \E t \in TaskIds : ProcExit(t)

SpecLadder == Init /\ [][NextLadder]_vars

\* ------------------------------------------------------------- type check
TypeOK ==
    /\ Registered \subseteq TaskIds
    /\ \A t \in Registered :
        /\ tasks[t].status \in Statuses
        /\ tasks[t].percentage \in 0..100
        /\ tasks[t].pid \in 0..(Cardinality(TaskIds) * GpuAttempts)
    /\ \A t \in TaskIds :
        /\ lock[t] \in {"free", "sup"}
        /\ os[t].state \in {"none", "running", "killed", "exited"}
        /\ file[t] \in {"absent", "empty", "bad", "good"}
    /\ mgr.op \in {"free", "progress", "cancel_all"}


\* ------------------------------------------------------------- fairness
\* The supervisor whose spawn() and wait() calls succeed.
LiveSupervisor(t) ==
    \/ SupLock(t)
    \/ ReadConfig(t)
    \/ BeginAttempt(t)
    \/ SpawnOk(t)
    \/ RecordPid(t)
    \/ ReadLine(t)
    \/ ReadEof(t)
    \/ ApplyLine(t)
    \/ Wait(t)
    \/ HandleExit(t)
    \/ Validate(t)
    \/ ValFailed(t)
    \/ Complete(t)
    \/ Cleanup(t)

\* One task of either encoder, its supervisor, its processes and every call
\* of the Manager.
NextLive ==
    \/ \E t \in TaskIds : LiveSupervisor(t)
    \/ \E t \in TaskIds : Process(t)
    \/ Manager

\* The runtime schedules a supervisor that can take a step, and a process
\* that runs exits or dies of the signal it was sent.  The calls of the
\* Manager are made or not, with no fairness.
Fairness ==
    /\ \A t \in OneTask : WF_vars(LiveSupervisor(t))
    /\ \A t \in OneTask : WF_vars(Process(t))

SpecLive == Init /\ [][NextLive]_vars /\ Fairness

\* The steps by which a call of the Manager that has begun goes on to its
\* return: get_progress once the task's mutex is free, and the passes of
\* cancel_all.
ManagerStep ==
    \/ ProgressReturn
    \/ CancelAllKill
    \/ CancelAllSleep
    \/ CancelAllCancel
    \/ CancelAllReturn

\* The thread of a call that can go on does go on.
FairnessCalls == Fairness /\ WF_vars(ManagerStep)

SpecCalls == Init /\ [][NextLive]_vars /\ FairnessCalls

\* ------------------------------------------------------------ two tasks
TwoTasks == {1, 2}

\* Two software tasks, their supervisors and processes, and the progress and
\* cancel calls on either.
NextPair ==
    \/ Start("libx264")
    \/ \E t \in TaskIds : LiveSupervisor(t)
    \/ \E t \in TaskIds : Process(t)
    \/ \E id \in CallIds : ProgressCall(id)
    \/ ProgressReturn
    \/ \E id \in CallIds : Cancel(id)

SpecPair == InitWith(TwoTasks) /\ [][NextPair]_vars

\* --------------------------------------------------- the progress parser
\* The stderr lines the parser is fed: two durations, elapsed times in each
\* of the four forms, and a line with neither.
ParserLines ==
    {"Duration: 00:00:04.00", "Duration: 00:00:02.00", "time=00:00:01.00",
     "out_time=00:00:03.00", "out_time_us=2000000", "out_time_ms=6000000", "frame=1"}

\* The lines that report a duration.
DurationLines == {"Duration: 00:00:04.00", "Duration: 00:00:02.00"}

\* The supervisor of a task whose processes write lines of `lines` and whose
\* spawns and waits succeed.
ParserSupervisor(t, lines) ==
    \/ SupLock(t)
    \/ ReadConfig(t)
    \/ BeginAttempt(t)
    \/ SpawnOk(t)
    \/ RecordPid(t)
    \/ ReadLineFrom(t, lines, MaxParsed)
    \/ ReadEof(t)
    \/ ApplyLine(t)
    \/ Wait(t)
    \/ HandleExit(t)
    \/ Validate(t)
    \/ ValFailed(t)
    \/ Complete(t)
    \/ Cleanup(t)

\* The single attempt of a software task fed the parser's lines.
NextParser ==
    \/ Start("libx264")
    \/ \E t \in TaskIds : ParserSupervisor(t, ParserLines)
    \/ \E t \in TaskIds : ProcExit(t)

SpecParser == Init /\ [][NextParser]_vars

\* The attempts of a hardware task fed the duration lines, with cancels.
NextDuration ==
    \/ Start("h264_nvenc")
    \/ \E t \in TaskIds : ParserSupervisor(t, DurationLines)
    \/ \E t \in TaskIds : Process(t)
    \/ \E id \in TaskIds : Cancel(id)

SpecDuration == Init /\ [][NextDuration]_vars

\* ------------------------------------------------------- lib.rs commands
\* An id that start never gives out.
UnknownId == Cardinality(TaskIds) + 1

\* The ids a caller of the commands may pass.
AnyIds == TaskIds \cup {UnknownId}

\* The extension strings given to get_format_info: the extensions of the
\* table, spellings of them in capitals, and strings outside the table.
Extensions ==
    {"mp4", "mkv", "avi", "mov", "wmv", "flv", "webm", "ogv",
     "mp3", "wav", "aac", "flac", "m4a", "ogg", "MP4", "Mp4",
     "MKV", "MOV", "WEBM", "WebM", "MP3", "WAV", "FLAC", "M4A",
     "OGG", "Ogg", "", "gif", "GIF", "txt", "mp", "mp44"}

\* The extensions as character strings.
ExtChars(ext) ==
    CASE ext = "mp4" -> <<"m","p","4">>
      [] ext = "mkv" -> <<"m","k","v">>
      [] ext = "avi" -> <<"a","v","i">>
      [] ext = "mov" -> <<"m","o","v">>
      [] ext = "wmv" -> <<"w","m","v">>
      [] ext = "flv" -> <<"f","l","v">>
      [] ext = "webm" -> <<"w","e","b","m">>
      [] ext = "ogv" -> <<"o","g","v">>
      [] ext = "mp3" -> <<"m","p","3">>
      [] ext = "wav" -> <<"w","a","v">>
      [] ext = "aac" -> <<"a","a","c">>
      [] ext = "flac" -> <<"f","l","a","c">>
      [] ext = "m4a" -> <<"m","4","a">>
      [] ext = "ogg" -> <<"o","g","g">>
      [] ext = "MP4" -> <<"M","P","4">>
      [] ext = "Mp4" -> <<"M","p","4">>
      [] ext = "MKV" -> <<"M","K","V">>
      [] ext = "MOV" -> <<"M","O","V">>
      [] ext = "WEBM" -> <<"W","E","B","M">>
      [] ext = "WebM" -> <<"W","e","b","M">>
      [] ext = "MP3" -> <<"M","P","3">>
      [] ext = "WAV" -> <<"W","A","V">>
      [] ext = "FLAC" -> <<"F","L","A","C">>
      [] ext = "M4A" -> <<"M","4","A">>
      [] ext = "OGG" -> <<"O","G","G">>
      [] ext = "Ogg" -> <<"O","g","g">>
      [] ext = "" -> <<>>
      [] ext = "gif" -> <<"g","i","f">>
      [] ext = "GIF" -> <<"G","I","F">>
      [] ext = "txt" -> <<"t","x","t">>
      [] ext = "mp" -> <<"m","p">>
      [] ext = "mp44" -> <<"m","p","4","4">>

\* char::to_lowercase on the letters of the extensions.
lower_char(c) ==
    CASE c = "A" -> "a"
      [] c = "B" -> "b"
      [] c = "C" -> "c"
      [] c = "D" -> "d"
      [] c = "E" -> "e"
      [] c = "F" -> "f"
      [] c = "G" -> "g"
      [] c = "H" -> "h"
      [] c = "I" -> "i"
      [] c = "J" -> "j"
      [] c = "K" -> "k"
      [] c = "L" -> "l"
      [] c = "M" -> "m"
      [] c = "N" -> "n"
      [] c = "O" -> "o"
      [] c = "P" -> "p"
      [] c = "Q" -> "q"
      [] c = "R" -> "r"
      [] c = "S" -> "s"
      [] c = "T" -> "t"
      [] c = "U" -> "u"
      [] c = "V" -> "v"
      [] c = "W" -> "w"
      [] c = "X" -> "x"
      [] c = "Y" -> "y"
      [] c = "Z" -> "z"
      [] OTHER -> c

\* str::to_lowercase: every character is replaced by its lower-case form.
to_lowercase(ext) ==
    LET chars == ExtChars(ext)
        lowered == [i \in DOMAIN chars |-> lower_char(chars[i])]
    IN  CHOOSE s \in Extensions : ExtChars(s) = lowered

\* The extensions of the audio-only formats (AUDIO_FORMATS).
AudioOnlyExtensions == {"mp3", "wav", "aac", "flac", "m4a", "ogg"}

FormatInfo(container, video, audio, supports_video, supports_audio) ==
    [container |-> container, default_video_codec |-> video,
     default_audio_codec |-> audio, supports_video |-> supports_video,
     supports_audio |-> supports_audio]

\* The arms of the match of get_format_info on a string.
format_table(e) ==
    CASE e = "mp4"  -> FormatInfo("mp4", "libx264", "aac", TRUE, TRUE)
      [] e = "mkv"  -> FormatInfo("matroska", "libx264", "aac", TRUE, TRUE)
      [] e = "avi"  -> FormatInfo("avi", "libx264", "mp3", TRUE, TRUE)
      [] e = "mov"  -> FormatInfo("mov", "libx264", "aac", TRUE, TRUE)
      [] e = "wmv"  -> FormatInfo("asf", "wmv2", "wmav2", TRUE, TRUE)
      [] e = "flv"  -> FormatInfo("flv", "libx264", "aac", TRUE, TRUE)
      [] e = "webm" -> FormatInfo("webm", "libvpx-vp9", "libopus", TRUE, TRUE)
      [] e = "ogv"  -> FormatInfo("ogg", "libtheora", "libvorbis", TRUE, TRUE)
      [] e = "mp3"  -> FormatInfo("mp3", "", "libmp3lame", FALSE, TRUE)
      [] e = "wav"  -> FormatInfo("wav", "", "pcm_s16le", FALSE, TRUE)
      [] e = "aac"  -> FormatInfo("adts", "", "aac", FALSE, TRUE)
      [] e = "flac" -> FormatInfo("flac", "", "flac", FALSE, TRUE)
      [] e = "m4a"  -> FormatInfo("ipod", "", "aac", FALSE, TRUE)
      [] e = "ogg"  -> FormatInfo("ogg", "", "libvorbis", FALSE, TRUE)
      [] OTHER      -> FormatInfo("mp4", "libx264", "aac", TRUE, TRUE)

\* A resolution that matches the extension as it is spelled.
get_format_info_exact(ext) == format_table(ext)

\* get_format_info: the match on the lower-cased extension.
get_format_info(ext) == format_table(to_lowercase(ext))

\* The arguments of start_conversion and what the command finds on the
\* machine: whether an input path is given and the file exists, whether the
\* output directory can be created, whether an ffmpeg binary is found, the
\* output extension, and what the probe of the input gives.
Requests ==
    [has_input_file : BOOLEAN, input_exists : BOOLEAN, dir_ok : BOOLEAN,
     ffmpeg_found : BOOLEAN, ext : {"mp4", "mp3", "MP3"},
     probe : {"audio", "no_audio", "spawn_failed"}, encoder : {"libx264"}]

\* lib.rs start_conversion, lines 417-452: whether the output is audio-only.
audio_only(req) ==
    LET format_info == get_format_info(to_lowercase(req.ext))
    IN  ~format_info.supports_video /\ format_info.supports_audio

\* A start that does not look for an audio stream.
start_conversion_result_unprobed(req) ==
    CASE ~req.has_input_file -> "Err(Missing input_file)"
      [] ~req.input_exists -> "Err(Input file not found)"
      [] ~req.dir_ok -> "Err(Failed to create output directory)"
      [] ~req.ffmpeg_found -> "Err(FFmpeg not found)"
      [] OTHER -> "Ok"

\* lib.rs start_conversion: the checks in the order of the code, "Ok" when
\* all pass.
start_conversion_result(req) ==
    CASE ~req.has_input_file -> "Err(Missing input_file)"
      [] ~req.input_exists -> "Err(Input file not found)"
      [] ~req.dir_ok -> "Err(Failed to create output directory)"
      [] ~req.ffmpeg_found -> "Err(FFmpeg not found)"
      [] audio_only(req) /\ req.probe = "spawn_failed" -> "Err(Failed to probe input)"
      [] audio_only(req) /\ req.probe = "no_audio" -> "Err(Input has no audio stream)"
      [] OTHER -> "Ok"

\* lib.rs start_conversion, lines 437-445: whether the command ran ffmpeg on
\* the input to list its streams.
start_conversion_probes(req) ==
    /\ req.has_input_file /\ req.input_exists /\ req.dir_ok /\ req.ffmpeg_found
    /\ audio_only(req)
    /\ req.probe # "spawn_failed"

\* lib.rs start_conversion: an error of a check is returned before the
\* manager lock is asked for; else FfmpegManager::start_conversion runs
\* under the manager lock.
StartCommand(req) ==
    IF start_conversion_result(req) = "Ok"
    THEN Start(req.encoder)
    ELSE /\ ret' = [NoRet EXCEPT !.op = "start",
                                 !.result = start_conversion_result(req),
                                 !.probe = start_conversion_probes(req)]
         /\ UNCHANGED <<tasks, lock, mgr, sup, os, file>>

\* The commands start, progress and cancel with any argument, the supervisor
\* and the processes of the task.
NextCommands ==
    \/ \E req \in Requests : StartCommand(req)
    \/ \E t \in TaskIds : Supervisor(t)
    \/ \E t \in TaskIds : Process(t)
    \/ \E id \in AnyIds : ProgressCall(id)
    \/ ProgressReturn
    \/ \E id \in AnyIds : Cancel(id)

SpecCommands == Init /\ [][NextCommands]_vars


\* ------------------------------------------------------- the command line
AdobePreset(name, encoder, encoder_options, pixel_format) ==
    [name |-> name, encoder |-> encoder, encoder_options |-> encoder_options,
     pixel_format |-> pixel_format]

\* get_adobe_presets: the catalog, in the order of the vector.
get_adobe_presets ==
    << AdobePreset("prores_422", "prores_ks", <<"-profile:v", "2">>, "yuv422p10le"),
       AdobePreset("prores_422_hq", "prores_ks", <<"-profile:v", "3">>, "yuv422p10le"),
       AdobePreset("prores_4444", "prores_ks", <<"-profile:v", "4", "-alpha_bits", "16">>, "yuva444p10le"),
       AdobePreset("prores_proxy", "prores_ks", <<"-profile:v", "0">>, "yuv422p"),
       AdobePreset("dnxhd_1080p_220", "dnxhd", <<"-b:v", "220M">>, "yuv422p"),
       AdobePreset("dnxhd_1080p_145", "dnxhd", <<"-b:v", "145M">>, "yuv422p"),
       AdobePreset("dnxhr_hq", "dnxhd", <<"-profile:v", "dnxhr_hq">>, "yuv422p"),
       AdobePreset("dnxhr_sq", "dnxhd", <<"-profile:v", "dnxhr_sq">>, "yuv422p"),
       AdobePreset("dnxhr_lb", "dnxhd", <<"-profile:v", "dnxhr_lb">>, "yuv422p"),
       AdobePreset("cineform_high", "cfhd", <<"-quality", "film3+">>, "yuv422p10le"),
       AdobePreset("cineform_medium", "cfhd", <<"-quality", "film3">>, "yuv422p"),
       AdobePreset("cineform_low", "cfhd", <<"-quality", "film2">>, "yuv422p") >>

\* Iterator::find: the first element the predicate holds for, as an Option
\* (the empty sequence is None).
find_preset(presets, name) ==
    LET hits == {i \in DOMAIN presets : presets[i].name = name}
    IN  IF hits = {} THEN <<>>
        ELSE <<presets[CHOOSE i \in hits : \A j \in hits : i <= j]>>

\* FfmpegManager::start_conversion, lines 704-708.
resolve_adobe_preset(preset, is_adobe_preset) ==
    IF is_adobe_preset THEN find_preset(get_adobe_presets, preset) ELSE <<>>

\* translate_nvenc_preset
translate_nvenc_preset(cpu_preset) ==
    CASE cpu_preset \in {"ultrafast", "superfast", "veryfast", "faster"} -> "fast"
      [] cpu_preset \in {"fast", "medium"} -> "medium"
      [] cpu_preset \in {"slow", "slower", "veryslow"} -> "slow"
      [] cpu_preset \in {"default", "hp", "hq", "bd", "ll", "llhq", "llhp",
                         "lossless", "losslesshp"} -> cpu_preset
      [] OTHER -> "medium"

\* u32::to_string on the indexes and thread counts of the requests.
to_string(n) ==
    CASE n = 0 -> "0"
      [] n = 1 -> "1"
      [] n = 2 -> "2"
      [] n = 3 -> "3"
      [] n = 4 -> "4"
      [] n = 8 -> "8"

\* Lines 950-956.
base_args == <<"-y", "-hide_banner", "-progress", "pipe:2", "-nostats">>

\* Lines 958-969: hardware decode, on the attempt that uses it.
hw_decode_args(cfg, attempt) ==
    IF use_hw_decode(cfg.encoder, attempt)
    THEN <<"-hwaccel">> \o
         (IF is_nvenc(cfg.encoder)
          THEN <<"cuda">> \o (IF cfg.gpu_index # <<>>
                              THEN <<"-hwaccel_device", to_string(cfg.gpu_index[1])>>
                              ELSE <<>>)
          ELSE <<"auto">>)
    ELSE <<>>

\* Lines 971-974.
threads_args(cfg) ==
    IF cfg.cpu_threads # <<>> THEN <<"-threads", to_string(cfg.cpu_threads[1])>> ELSE <<>>

\* Lines 979-993: the streams mapped.
map_args(format_info) ==
    (IF format_info.supports_video THEN <<"-map", "0:v:0?">> ELSE <<>>) \o
    (IF format_info.supports_audio
     THEN <<"-map", IF format_info.supports_video THEN "0:a?" ELSE "0:a:0?">>
     ELSE <<>>)

\* A profile written without its option list.
preset_args_no_options(preset_config) ==
    <<"-c:v", preset_config.encoder>> \o
    <<"-pix_fmt", preset_config.pixel_format>> \o
    (IF preset_config.encoder \in {"prores_ks", "dnxhd"}
     THEN <<"-c:a", "pcm_s16le">> ELSE <<>>)

\* Lines 997-1005: the arguments of a profile.
preset_args(preset_config) ==
    <<"-c:v", preset_config.encoder>> \o
    preset_config.encoder_options \o
    <<"-pix_fmt", preset_config.pixel_format>> \o
    (IF preset_config.encoder \in {"prores_ks", "dnxhd"}
     THEN <<"-c:a", "pcm_s16le">> ELSE <<>>)

\* Lines 1008-1027: the video codec of the standard path.
video_args(cfg, attempt, format_info) ==
    LET e == cfg.encoder
        nvenc_attempt == is_nvenc(e) /\ ~is_cpu_fallback(e, attempt)
    IN  IF format_info.supports_video
        THEN <<"-c:v", attempt_encoder(e, attempt)>> \o
             (IF nvenc_attempt
              THEN <<"-preset", translate_nvenc_preset(cfg.preset)>>
              ELSE IF attempt_encoder(e, attempt) \in {"libx264", "libx265"}
                   THEN <<"-preset", cfg.preset>>
                   ELSE <<>>) \o
             (IF nvenc_attempt /\ cfg.gpu_index # <<>>
              THEN <<"-gpu", to_string(cfg.gpu_index[1])>> ELSE <<>>) \o
             (IF force_nv12(e, attempt) THEN <<"-pix_fmt", "nv12">> ELSE <<>>)
        ELSE <<>>

\* Lines 1028-1035: the audio codec of the standard path.
audio_args(format_info) ==
    IF format_info.supports_audio
    THEN <<"-c:a", IF format_info.default_audio_codec = ""
                   THEN "copy" ELSE format_info.default_audio_codec>>
    ELSE <<>>

\* Lines 995-1037: the codec arguments of an attempt.
codec_args(cfg, attempt, format_info) ==
    IF cfg.is_adobe_preset /\ ~is_cpu_fallback(cfg.encoder, attempt)
    THEN IF cfg.adobe_preset # <<>> THEN preset_args(cfg.adobe_preset[1]) ELSE <<>>
    ELSE video_args(cfg, attempt, format_info) \o audio_args(format_info)

\* Lines 1041-1044.
movflags_args(output_ext) ==
    IF output_ext \in {"mp4", "mov", "m4a"} THEN <<"-movflags", "+faststart">> ELSE <<>>

\* Lines 950-1046: the argument list of an attempt.
build_args(cfg, attempt) ==
    LET output_ext == to_lowercase(cfg.output_ext)
        format_info == get_format_info(output_ext)
    IN  base_args \o hw_decode_args(cfg, attempt) \o threads_args(cfg) \o
        <<"-i", cfg.input_file>> \o map_args(format_info) \o
        codec_args(cfg, attempt, format_info) \o
        movflags_args(output_ext) \o <<cfg.output_file>>

\* The names of the catalog.
CatalogNames == {get_adobe_presets[i].name : i \in DOMAIN get_adobe_presets}

\* The preset names of the x264 family and of NVENC.
CpuPresetNames ==
    {"ultrafast", "superfast", "veryfast", "faster", "fast", "medium", "slow",
     "slower", "veryslow"}

NvencPresetNames ==
    {"default", "slow", "medium", "fast", "hp", "hq", "bd", "ll", "llhq", "llhp",
     "lossless", "losslesshp"}

\* The preset names a request may carry: those of the catalog, those of the
\* encoders, and names that are neither.
PresetNames ==
    CatalogNames \cup CpuPresetNames \cup NvencPresetNames \cup {"", "p4", "ProRes_422"}

\* The arguments of FfmpegManager::start_conversion that shape the command.
ArgRequests ==
    [encoder : {"libx264", "h264_nvenc", "hevc_amf"},
     gpu_index : {<<>>, <<1>>}, cpu_threads : {<<>>, <<4>>},
     preset : PresetNames, is_adobe_preset : BOOLEAN,
     output_ext : {"mp4", "mkv", "mp3"}]

\* FfmpegManager::start_conversion, lines 704-735: the task's configuration,
\* with the profile resolved.
task_config(req) ==
    [encoder |-> req.encoder, gpu_index |-> req.gpu_index,
     cpu_threads |-> req.cpu_threads, preset |-> req.preset,
     is_adobe_preset |-> req.is_adobe_preset,
     adobe_preset |-> resolve_adobe_preset(req.preset, req.is_adobe_preset),
     output_ext |-> req.output_ext,
     input_file |-> "in.mov", output_file |-> "out." \o req.output_ext]

\* A task is configured from a request.
Configure(req) ==
    /\ ret = NoRet
    /\ ret' = [op |-> "configured", cfg |-> task_config(req), attempt |-> 0, args |-> <<>>]
    /\ UNCHANGED <<tasks, lock, mgr, sup, os, file>>

\* The supervisor builds the command of the next attempt of the loop.
BuildArgs ==
    /\ ret.op \in {"configured", "args"}
    /\ LET attempt == IF ret.op = "configured" THEN 0 ELSE ret.attempt + 1
       IN  /\ attempt < max_attempts(ret.cfg.encoder)
           /\ ret' = [ret EXCEPT !.op = "args", !.attempt = attempt,
                                 !.args = build_args(ret.cfg, attempt)]
    /\ UNCHANGED <<tasks, lock, mgr, sup, os, file>>

NextArgs ==
    \/ \E req \in ArgRequests : Configure(req)
    \/ BuildArgs

SpecArgs == Init /\ [][NextArgs]_vars


\* ------------------------------------------------------ format information
\* lib.rs get_format_information: the FormatInfo of an extension is
\* returned; the answer before it is kept beside it.
FormatInformation(extension) ==
    /\ ret = NoRet \/ ret.op = "format"
    /\ ret' = [op |-> "format", extension |-> extension,
               info |-> get_format_info(extension),
               previous |-> IF ret.op = "format"
                            THEN <<[extension |-> ret.extension, info |-> ret.info]>>
                            ELSE <<>>]
    /\ UNCHANGED <<tasks, lock, mgr, sup, os, file>>

NextFormats == \E extension \in Extensions : FormatInformation(extension)

SpecFormats == Init /\ [][NextFormats]_vars

\* ------------------------------------------------------------ gpu adapters
\* The adapter names the operating system may report.
AdapterNames ==
    {"Intel(R) UHD Graphics",
     "NVIDIA GeForce GTX 1660 Ti",
     "NVIDIA GeForce RTX 4090",
     "Microsoft Basic Display Adapter",
     "AMD Radeon RX 6600",
     "",
     "  ",
     " NVIDIA GeForce RTX 4090 "}

\* The names as character strings.
NameChars(name) ==
    CASE name = "Intel(R) UHD Graphics" ->
            <<"I","n","t","e","l","(","R",")"," ","U","H","D"," ","G","r","a","p","h","i","c","s">>
      [] name = "NVIDIA GeForce GTX 1660 Ti" ->
            <<"N","V","I","D","I","A"," ","G","e","F","o","r","c","e"," ","G","T","X"," ","1","6","6","0"," ","T","i">>
      [] name = "NVIDIA GeForce RTX 4090" ->
            <<"N","V","I","D","I","A"," ","G","e","F","o","r","c","e"," ","R","T","X"," ","4","0","9","0">>
      [] name = "Microsoft Basic Display Adapter" ->
            <<"M","i","c","r","o","s","o","f","t"," ","B","a","s","i","c"," ","D","i","s","p","l","a","y"," ","A","d","a","p","t","e","r">>
      [] name = "AMD Radeon RX 6600" ->
            <<"A","M","D"," ","R","a","d","e","o","n"," ","R","X"," ","6","6","0","0">>
      [] name = "" ->
            <<>>
      [] name = "  " ->
            <<" "," ">>
      [] name = " NVIDIA GeForce RTX 4090 " ->
            <<" ","N","V","I","D","I","A"," ","G","e","F","o","r","c","e"," ","R","T","X"," ","4","0","9","0"," ">>

\* char::to_uppercase on the letters of the names.
upper_char(c) ==
    CASE c = "a" -> "A"
      [] c = "b" -> "B"
      [] c = "c" -> "C"
      [] c = "d" -> "D"
      [] c = "e" -> "E"
      [] c = "f" -> "F"
      [] c = "g" -> "G"
      [] c = "h" -> "H"
      [] c = "i" -> "I"
      [] c = "j" -> "J"
      [] c = "k" -> "K"
      [] c = "l" -> "L"
      [] c = "m" -> "M"
      [] c = "n" -> "N"
      [] c = "o" -> "O"
      [] c = "p" -> "P"
      [] c = "q" -> "Q"
      [] c = "r" -> "R"
      [] c = "s" -> "S"
      [] c = "t" -> "T"
      [] c = "u" -> "U"
      [] c = "v" -> "V"
      [] c = "w" -> "W"
      [] c = "x" -> "X"
      [] c = "y" -> "Y"
      [] c = "z" -> "Z"
      [] OTHER -> c

name_upper(name) == [i \in DOMAIN NameChars(name) |-> upper_char(NameChars(name)[i])]
name_lower(name) == [i \in DOMAIN NameChars(name) |-> lower_char(NameChars(name)[i])]

\* str::trim: the name without the blanks at its ends.
trim(name) ==
    LET chars == NameChars(name)
        inked == {i \in DOMAIN chars : chars[i] # " "}
        first == CHOOSE i \in inked : \A j \in inked : i <= j
        last == CHOOSE i \in inked : \A j \in inked : j <= i
        trimmed == IF inked = {} THEN <<>> ELSE SubSeq(chars, first, last)
    IN  CHOOSE n \in AdapterNames : NameChars(n) = trimmed

\* is_virtual_adapter, lines 62-82.
virtual_markers ==
    {<<"v","i","r","t","u","a","l">>,
     <<"r","e","m","o","t","e">>,
     <<"b","a","s","i","c"," ","d","i","s","p","l","a","y">>,
     <<"m","i","c","r","o","s","o","f","t"," ","b","a","s","i","c">>,
     <<"m","i","r","a","c","a","s","t">>,
     <<"i","n","d","i","r","e","c","t"," ","d","i","s","p","l","a","y">>,
     <<"d","i","s","p","l","a","y","l","i","n","k">>,
     <<"r","d","p">>,
     <<"v","m","w","a","r","e">>,
     <<"v","i","r","t","u","a","l","b","o","x">>,
     <<"p","a","r","a","l","l","e","l","s">>,
     <<"c","i","t","r","i","x">>,
     <<"x","e","n">>,
     <<"d","u","m","m","y">>}

is_virtual_adapter(name) == \E m \in virtual_markers : Contains(name_lower(name), m)

\* classify_gpu_name, lines 84-104.
classify_gpu_name(name) ==
    LET has(sub) == Contains(name_upper(name), sub)
    IN  IF \/ has(<<"N","V","I","D","I","A">>) \/ has(<<"G","E","F","O","R","C","E">>)
           \/ has(<<"R","T","X">>) \/ has(<<"G","T","X">>)
        THEN "Nvidia"
        ELSE IF has(<<"A","M","D">>) \/ has(<<"R","A","D","E","O","N">>)
        THEN "Amd"
        ELSE IF /\ has(<<"I","N","T","E","L">>)
                /\ \/ has(<<"A","R","C">>) \/ has(<<"U","H","D">>)
                   \/ has(<<"H","D"," ","G","R","A","P","H","I","C","S">>)
                   \/ has(<<"I","R","I","S">>)
        THEN "Intel"
        ELSE "Unknown"

\* is_likely_integrated, lines 106-115.
is_likely_integrated(name) ==
    LET has(sub) == Contains(name_upper(name), sub)
    IN  \/ has(<<"U","H","D">>)
        \/ has(<<"H","D"," ","G","R","A","P","H","I","C","S">>)
        \/ has(<<"I","R","I","S">>)
        \/ has(<<"I","R","I","S"," ","X","E">>)
        \/ has(<<"R","A","D","E","O","N"," ","G","R","A","P","H","I","C","S">>)
        \/ has(<<"I","N","T","E","G","R","A","T","E","D">>)
        \/ has(<<"A","P","U">>)

\* gpu_priority, lines 117-142.
gpu_priority(name, gpu_type) ==
    LET has(sub) == Contains(name_upper(name), sub)
        vendor == CASE gpu_type = "Nvidia" -> 300
                    [] gpu_type = "Amd" -> 250
                    [] gpu_type = "Intel" -> 180
                    [] gpu_type = "Unknown" -> 100
                    [] gpu_type = "None" -> 0
        series == IF has(<<"R","T","X">>) THEN 60
                  ELSE IF has(<<"G","T","X">>) THEN 40
                  ELSE IF has(<<"A","R","C">>) THEN 30
                  ELSE IF has(<<"R","X"," ">>) \/ has(<<"R","A","D","E","O","N"," ","R","X">>) THEN 35
                  ELSE 0
    IN  vendor + series - (IF is_likely_integrated(name) THEN 55 ELSE 0)

\* cleaned_non_empty_names, lines 144-150.
cleaned_non_empty_names(names) ==
    SelectSeq([i \in DOMAIN names |-> trim(names[i])], LAMBDA name : name # "")

GpuAdapter(id, name, gpu_type) ==
    [id |-> id, name |-> name, gpu_type |-> gpu_type, is_virtual |-> FALSE]

\* format!("gpu-{}", index)
gpu_id(index) == "gpu-" \o to_string(index)

\* An enumeration made after the virtual adapters are dropped.
build_adapters_renumbered(names) ==
    LET kept == SelectSeq(cleaned_non_empty_names(names),
                          LAMBDA name : ~is_virtual_adapter(name))
    IN  [k \in DOMAIN kept |->
            GpuAdapter(gpu_id(k - 1), kept[k], classify_gpu_name(kept[k]))]

\* build_adapters, lines 152-172: the cleaned names are enumerated from 0,
\* and the virtual ones dropped after that.
build_adapters(names) ==
    LET cleaned == cleaned_non_empty_names(names)
        enumerated == [i \in DOMAIN cleaned |-> [index |-> i - 1, name |-> cleaned[i]]]
        kept == SelectSeq(enumerated, LAMBDA entry : ~is_virtual_adapter(entry.name))
    IN  [k \in DOMAIN kept |->
            GpuAdapter(gpu_id(kept[k].index), kept[k].name,
                       classify_gpu_name(kept[k].name))]

\* A choice of the first adapter of the list.
pick_primary_adapter_first(adapters) ==
    IF adapters = <<>> THEN <<>> ELSE <<adapters[1]>>

\* pick_primary_adapter, lines 174-180: Iterator::max_by gives the last of
\* the elements of maximal score, and None for no element.
pick_primary_adapter(adapters) ==
    LET score(i) == gpu_priority(adapters[i].name, adapters[i].gpu_type)
    IN  IF adapters = <<>> THEN <<>>
        ELSE <<adapters[CHOOSE i \in DOMAIN adapters :
                    /\ \A j \in DOMAIN adapters : score(j) <= score(i)
                    /\ \A j \in DOMAIN adapters : j > i => score(j) < score(i)]>>

\* The lists of names of at most MaxAdapters entries.
NameLists == UNION {[1..n -> AdapterNames] : n \in 0..MaxAdapters}

\* detect_with_ffmpeg, lines 283-285: the adapters are built from the names
\* collected, and the primary adapter picked among them.
Detect(names) ==
    /\ ret = NoRet
    /\ LET adapters == build_adapters(names)
       IN  ret' = [op |-> "detect", names |-> names, adapters |-> adapters,
                   primary |-> pick_primary_adapter(adapters)]
    /\ UNCHANGED <<tasks, lock, mgr, sup, os, file>>

NextGpu == \E names \in NameLists : Detect(names)

SpecGpu == Init /\ [][NextGpu]_vars

\* ---------------------------------------------------- the stderr stream
\* Line 1124, Err: next_line() fails on what the process wrote (bytes that
\* are not UTF-8, or an error of the pipe); `while let Ok(Some(line))` ends
\* the loop as it does at the end of the stream, with the process alive.
ReadErr(t) ==
    /\ t \in Registered
    /\ sup[t].pc = "read"
    /\ os[t].state \in {"running", "killed"}
    /\ SetSup(t, [sup[t] EXCEPT !.pc = "wait"])
    /\ ret' = NoRet
    /\ UNCHANGED <<tasks, lock, mgr, os, file>>

\* One task, its supervisor with every outcome of next_line(), and its
\* processes.
NextStream ==
    \/ \E enc \in Encoders : Start(enc)
    \/ \E t \in TaskIds : Supervisor(t)
    \/ \E t \in TaskIds : ReadErr(t)
    \/ \E t \in TaskIds : ProcExit(t)

SpecStream == Init /\ [][NextStream]_vars

\* ================================================================ claims
\* The entries of a task's log that describe an attempt, and those that list
\* an attempt's arguments.
AttemptDescriptions(t) == SelectSeq(tasks[t].log, LAMBDA x : x \in DescriptionEntries)
AttemptArguments(t) == SelectSeq(tasks[t].log, LAMBDA x : x \in ArgsEntries)

\* A supervisor that has left the attempt loop.
Returned(t) == t \in Registered /\ sup[t].pc = "done"

\* C1: once a task's status is Completed, Failed or Cancelled, no step of the
\* supervisor or of a Manager call gives it another value.
C1_TerminalStatusIsFinal ==
    [][\A t \in Registered :
          tasks[t].status \in Terminal => tasks'[t].status = tasks[t].status]_vars

\* C2: a cancel that finds the task Running with its process running, the
\* process id recorded and the lock free makes the status Cancelled and kills
\* that process, and the status of a task so cancelled stays Cancelled while
\* the killed process dies, is reaped and has its exit handled.
C2_CancelledMidAttemptStays ==
    [][\A t \in Registered :
          /\ ( /\ ret'.op = "cancel" /\ ret'.id = t
               /\ lock[t] = "free"
               /\ tasks[t].status = "Running"
               /\ tasks[t].pid # 0
               /\ os[t].state = "running" )
             => ( /\ tasks'[t].status = "Cancelled"
                  /\ ret'.kill = os[t].pid
                  /\ os'[t].state = "killed" )
          /\ ( /\ tasks[t].status = "Cancelled"
               /\ \/ os[t].state = "killed"
                  \/ os[t].state = "exited" /\ os[t].code = -9
                  \/ sup[t].pc = "exit" /\ sup[t].status = "killed" )
             => tasks'[t].status = "Cancelled"]_vars

\* A process that runs and has been sent no kill signal.
Live(t) == os[t].state = "running"

\* C3: when cancel_all returns, no registered task is Running with the
\* recorded pid of a live process.
C3_CancelAllLeavesNoRunningProcess ==
    ret.op = "cancel_all" =>
        \A t \in Registered :
            ~(tasks[t].status = "Running" /\ tasks[t].pid # 0
              /\ Live(t) /\ os[t].pid = tasks[t].pid)

\* The encoder names that contain nvenc, amf or qsv.
HardwareNames ==
    {"h264_nvenc", "hevc_nvenc", "av1_nvenc", "h264_amf", "hevc_amf", "av1_amf",
     "h264_qsv", "hevc_qsv", "av1_qsv", "vp9_qsv"}

\* The number of attempts the encoder name allows.
AttemptsAllowed(e) == IF e \in HardwareNames THEN 4 ELSE 1

\* The number of attempts the code plans is that of the name, for every name.
PlannedAttemptsFollowName ==
    \A e \in AllEncoders : max_attempts(e) = AttemptsAllowed(e)

\* C4: a task starts at most 4 attempts (indices 0..3) when its encoder name
\* is a hardware name and at most 1 otherwise, the supervisor that returned
\* has started at least one, a software task that returned exactly one, and
\* the number of attempts the code plans is that of the name for every name.
C4_AttemptsFixedByEncoderName ==
    /\ PlannedAttemptsFollowName
    /\ \A t \in Registered :
        /\ Len(AttemptDescriptions(t)) <= AttemptsAllowed(tasks[t].encoder)
        /\ Len(AttemptArguments(t)) <= AttemptsAllowed(tasks[t].encoder)
        /\ sup[t].attempt < AttemptsAllowed(tasks[t].encoder)
        /\ Returned(t) => Len(AttemptDescriptions(t)) >= 1
        /\ (sup[t].pc \notin {"config", "begin"} /\ tasks[t].encoder \notin HardwareNames)
             => Len(AttemptDescriptions(t)) = 1

\* C4's case: a hardware task that failed after its fourth attempt.
C4_Witness ==
    \E t \in Registered :
        /\ Returned(t)
        /\ tasks[t].encoder \in HardwareNames
        /\ Len(AttemptDescriptions(t)) = 4
        /\ tasks[t].status = "Failed"

\* C5: on attempt 3 of a hardware encoder the encoder is a software encoder
\* of the codec family of the configured encoder.
C5_FallbackMatchesCodecFamily ==
    \A t \in Registered :
        (tasks[t].encoder \in HardwareNames /\ sup[t].attempt = 3)
            => /\ attempt_encoder(tasks[t].encoder, 3) \notin HardwareNames
               /\ infer_codec(attempt_encoder(tasks[t].encoder, 3))
                    = infer_codec(tasks[t].encoder)

\* The supervisor returned after a zero exit whose output passed validation.
ReturnedValidated(t) ==
    /\ Returned(t)
    /\ sup[t].status = "success"
    /\ sup[t].problem = ""

\* No attempt of the task failed to spawn or failed validation.
OnlyExitFailures(t) ==
    \A i \in 1..Len(tasks[t].log) : tasks[t].log[i] \notin {SpawnRetryLog, ValidationLog}

\* C6: without cancellation, a hardware task whose attempts 0, 1 and 2 ended
\* in the exit handling as failures and whose attempt 3 exited with code 0 and
\* passed validation is Completed, its log holds the descriptions and the
\* argument lists of the four attempts, each once and in order, and the
\* encoder of the last attempt is the software fallback, libx264 or libx265.
C6_LadderEndsOnSoftwareFallback ==
    \A t \in Registered :
        ( /\ tasks[t].encoder \in HardwareNames
          /\ ReturnedValidated(t)
          /\ sup[t].attempt = 3
          /\ OnlyExitFailures(t) )
        => LET e == tasks[t].encoder
           IN  /\ tasks[t].status = "Completed"
               /\ AttemptDescriptions(t) = [k \in 1..4 |-> log_msg(e, k - 1)]
               /\ AttemptArguments(t) = [k \in 1..4 |-> args_msg(e, k - 1)]
               /\ Len(tasks[t].log) <= 8 + MaxLines
               /\ sup[t].encoder = cpu_fallback_encoder(e)
               /\ sup[t].encoder \in {"libx264", "libx265"}
               /\ sup[t].encoder \notin HardwareNames

\* C6's case: an hevc hardware task completed by its fourth attempt after
\* three non-zero exits.
C6_Witness ==
    \E t \in Registered :
        /\ tasks[t].encoder = "hevc_amf"
        /\ ReturnedValidated(t)
        /\ sup[t].attempt = 3
        /\ OnlyExitFailures(t)
        /\ tasks[t].error_message = ExitError
        /\ tasks[t].status = "Completed"
        /\ sup[t].encoder = "libx265"

\* C7: without cancellation, a software task whose process exited with code
\* 0 and whose output passed validation has made exactly one attempt and is
\* Completed with percentage 100.
C7_SoftwareTaskCompletesAtOnce ==
    \A t \in Registered :
        (tasks[t].encoder \notin HardwareNames /\ ReturnedValidated(t))
        => /\ tasks[t].status = "Completed"
           /\ tasks[t].percentage = 100
           /\ sup[t].attempt = 0
           /\ Len(AttemptDescriptions(t)) = 1
           /\ Len(AttemptArguments(t)) = 1
           /\ file[t] = "good"

\* C7's case: a libx264 task completed after its process wrote a line that
\* left the percentage below 100.
C7_Witness ==
    \E t \in Registered :
        /\ tasks[t].encoder = "libx264"
        /\ ReturnedValidated(t)
        /\ sup[t].lines_read > 0
        /\ file[t] = "good"
        /\ tasks[t].status = "Completed"
        /\ tasks[t].percentage = 100

\* C8: a status becomes Completed only in the step that follows a zero exit
\* and a passed validation of the attempt's output; the step that follows a
\* failed validation never makes it Completed: on a non-final attempt it
\* deletes the output file and moves to the next attempt, on the final
\* attempt it makes the status Failed with the validator's problem in the
\* error message.
C8_CompletedOnlyAfterValidation ==
    [][\A t \in Registered :
          /\ (tasks'[t].status = "Completed" /\ tasks[t].status # "Completed")
             => /\ sup[t].pc = "complete"
                /\ sup[t].status = "success"
                /\ sup[t].problem = ""
                /\ file[t] = "good"
                /\ validate_output(file[t], "ran") = ""
          /\ (sup[t].pc = "val_failed" /\ sup'[t] # sup[t])
             => /\ sup[t].status = "success"
                /\ sup[t].problem # ""
                /\ tasks'[t].status # "Completed"
                /\ IF sup[t].attempt < max_attempts(tasks[t].encoder) - 1
                   THEN /\ file'[t] = "absent"
                        /\ sup'[t].pc = "begin"
                        /\ sup'[t].attempt = sup[t].attempt + 1
                        /\ tasks'[t].status = tasks[t].status
                   ELSE /\ sup'[t].pc = "done"
                        /\ tasks'[t].status = "Failed"
                        /\ tasks'[t].error_message
                             = "Conversion produced corrupt output: " \o sup[t].problem]_vars

\* C8's case: the last attempt of a hardware task exited with code 0, left
\* a corrupt file, and the task is Failed with the validator's problem.
C8_Witness ==
    \E t \in Registered :
        /\ Returned(t)
        /\ tasks[t].encoder \in HardwareNames
        /\ sup[t].attempt = 3
        /\ sup[t].status = "success"
        /\ sup[t].problem = "Corrupt video stream detected"
        /\ tasks[t].status = "Failed"
        /\ tasks[t].error_message
             = "Conversion produced corrupt output: Corrupt video stream detected"

\* C9: without cancellation, a task is Failed with the message of a spawn
\* failure or of a non-zero exit only when its supervisor starts no further
\* attempt: it has returned, or it is in its last attempt.
C9_FailedOnlyOnLastAttempt ==
    \A t \in Registered :
        (tasks[t].status = "Failed" /\ tasks[t].error_message \in {SpawnError, ExitError})
            => \/ Returned(t)
               \/ sup[t].attempt = AttemptsAllowed(tasks[t].encoder) - 1

\* C10: a cancel of a registered task whose lock is free returns Ok; when
\* the status is Pending or Running it kills the process of the recorded pid,
\* when one is recorded, and changes the status to Cancelled and nothing else
\* of the task; when the status is terminal it kills nothing and changes
\* nothing.
C10_CancelOnFreeLock ==
    [][\A t \in Registered :
          (ret'.op = "cancel" /\ ret'.id = t /\ lock[t] = "free")
          => /\ ret'.result = "Ok"
             /\ IF tasks[t].status \in {"Pending", "Running"}
                THEN /\ tasks'[t] = [tasks[t] EXCEPT !.status = "Cancelled"]
                     /\ ret'.kill = tasks[t].pid
                     /\ (tasks[t].pid # 0 /\ os[t].pid = tasks[t].pid
                           /\ os[t].state = "running")
                          => os'[t].state = "killed"
                     /\ tasks[t].pid = 0 => os' = os
                ELSE /\ ret'.kill = 0
                     /\ tasks'[t] = tasks[t]
                     /\ os' = os]_vars

\* C10's case: a cancel has just killed the recorded process of a Running
\* task and made the task Cancelled.
C10_Witness ==
    /\ ret.op = "cancel"
    /\ ret.result = "Ok"
    /\ ret.kill # 0
    /\ ret.id \in Registered
    /\ tasks[ret.id].status = "Cancelled"
    /\ tasks[ret.id].pid = ret.kill
    /\ os[ret.id].state = "killed"
    /\ os[ret.id].pid = ret.kill

C12_ProgressNeverWaits ==
    [][/\ (mgr.op = "free" /\ mgr'.op = "progress") => lock[mgr'.id] = "free"
       /\ \A t \in Registered :
            (ret'.op = "progress" /\ ret'.id = t)
            => /\ ret'.result = "Some"
               /\ ret'.snap = <<ProgressOf(tasks[t])>>
               /\ tasks' = tasks
               /\ os' = os
               /\ lock' = lock
               /\ sup' = sup]_vars

\* C13: a cancel of an id that is not registered returns the not-found
\* error, a progress call for such an id returns None, and neither changes
\* the registry, a task, a lock, a process, a file or the supervisor.
C13_UnknownIdIsNotFound ==
    [][\A id \in AnyIds :
          id \notin Registered
          => /\ (ret'.op = "cancel" /\ ret'.id = id)
                => /\ ret'.result = "Err(Task not found)"
                   /\ ret'.kill = 0
                   /\ UNCHANGED <<tasks, lock, mgr, sup, os, file>>
             /\ (ret'.op = "progress" /\ ret'.id = id)
                => /\ ret'.result = "None"
                   /\ ret'.snap = <<>>
                   /\ UNCHANGED <<tasks, lock, mgr, sup, os, file>>]_vars

\* C13's case: a cancel of an unknown id has returned the error while a
\* registered task is Running with its process alive.
C13_Witness ==
    /\ ret.op = "cancel"
    /\ ret.id = UnknownId
    /\ ret.id \notin Registered
    /\ ret.result = "Err(Task not found)"
    /\ \E t \in Registered :
        /\ tasks[t].status = "Running"
        /\ tasks[t].pid # 0
        /\ os[t].state = "running"

\* C14: no step removes an id from the registry or puts another record in
\* its place (the encoder stays and the log is only appended to), and a
\* progress call that returns for a registered id returns the snapshot of
\* its task, whatever the task's status.
C14_RegistryOnlyGrows ==
    [][/\ Registered \subseteq Registered'
       /\ \A t \in Registered :
            /\ t \in Registered'
            /\ tasks'[t].encoder = tasks[t].encoder
            /\ Len(tasks'[t].log) >= Len(tasks[t].log)
            /\ SubSeq(tasks'[t].log, 1, Len(tasks[t].log)) = tasks[t].log
            /\ (ret'.op = "progress" /\ ret'.id = t)
               => /\ ret'.result = "Some"
                  /\ ret'.snap = <<ProgressOf(tasks[t])>>]_vars

\* C14's case: a progress call has returned the snapshot of a task that is
\* Completed and whose supervisor has returned.
C14_Witness ==
    /\ ret.op = "progress"
    /\ ret.id \in Registered
    /\ ret.result = "Some"
    /\ ret.snap = <<ProgressOf(tasks[ret.id])>>
    /\ ret.snap[1].status = "Completed"
    /\ Returned(ret.id)

\* The requests start must reject: no input file, no ffmpeg binary, or an
\* audio-only output extension with an input that has no audio stream.
MustReject(req) ==
    \/ ~req.has_input_file
    \/ ~req.input_exists
    \/ ~req.ffmpeg_found
    \/ to_lowercase(req.ext) = "mp3" /\ req.probe = "no_audio"

\* start returns an error for every request it must reject.
RejectsWhatItMust ==
    \A req \in Requests : MustReject(req) => start_conversion_result(req) # "Ok"

\* A step in which start returns an error.
StartRejected == ret'.op = "start" /\ ret'.result # "Ok"

\* C15, as stated: start returns an error for every request it must reject,
\* and a start that returns an error has spawned no process at all, has
\* registered no task, launched no supervisor and left the registry as it was.
C15_RejectedStartSpawnsNoProcess ==
    [][/\ RejectsWhatItMust
       /\ StartRejected
          => /\ UNCHANGED <<tasks, lock, mgr, sup, os, file>>
             /\ ~ret'.probe]_vars

\* C15, amended: start returns an error for every request it must reject,
\* and a start that returns an error has registered no task, launched no
\* supervisor, spawned no conversion process and left the registry as it
\* was; the one process it may have run is the probe of the input, which the
\* rejection for a missing audio stream always follows.
C15_RejectedStartRegistersNothing ==
    [][/\ RejectsWhatItMust
       /\ StartRejected
          => /\ UNCHANGED <<tasks, lock, mgr, sup, os, file>>
             /\ ret'.result = "Err(Input has no audio stream)" => ret'.probe
             /\ ret'.probe => ret'.result = "Err(Input has no audio stream)"]_vars

\* C15's case: start has rejected an audio-only request for an input with no
\* audio stream, after its probe, while a task is registered and running.
C15_Witness ==
    /\ ret.op = "start"
    /\ ret.result = "Err(Input has no audio stream)"
    /\ ret.probe
    /\ \E t \in Registered : tasks[t].status = "Running" /\ os[t].state = "running"

\* An attempt's process that has been spawned and not yet reaped by wait().
Unreaped(t) == os[t].state \in {"running", "killed", "exited"}

\* C16: in every state the task holds a process handle or a process id
\* exactly when an attempt's process has been spawned and not yet reaped.
C16_PidSomeIffProcessUnreaped ==
    \A t \in Registered :
        (tasks[t].process \/ tasks[t].pid # 0) <=> Unreaped(t)

\* A step in which the supervisor of t applies the line it has read.
AppliesLine(t) == sup[t].pc = "apply" /\ sup'[t].pc = "read"

\* C17: the percentage is within 0..100 in every state and no step within an
\* attempt lowers it; the step that applies an elapsed-time line while the
\* duration is known and non-zero leaves it at min(100, elapsed * 100 /
\* duration) for the recorded elapsed time, and the step that applies any
\* other line, or an elapsed-time line while the duration is 0, leaves it
\* unchanged.
C17_PercentageBoundedAndMonotonic ==
    [][\A t \in Registered :
          /\ tasks[t].percentage >= 0 /\ tasks[t].percentage <= 100
          /\ tasks'[t].percentage >= 0 /\ tasks'[t].percentage <= 100
          /\ sup'[t].attempt = sup[t].attempt
             => tasks'[t].percentage >= tasks[t].percentage
          /\ AppliesLine(t)
             => IF parsed_time(sup[t].line) >= 0 /\ tasks'[t].duration > 0
                THEN LET ratio == (tasks'[t].current_time * 100) \div tasks'[t].duration
                     IN  tasks'[t].percentage = IF ratio > 100 THEN 100 ELSE ratio
                ELSE tasks'[t].percentage = tasks[t].percentage]_vars

\* C17's case: a duration of 4 s and an elapsed time of 6 s have been parsed
\* and the percentage of the running task is 100.
C17_Witness ==
    \E t \in Registered :
        /\ tasks[t].status = "Running"
        /\ tasks[t].duration = 4
        /\ tasks[t].current_time = 6
        /\ tasks[t].percentage = 100
        /\ tasks[t].log[Len(tasks[t].log)] = "out_time_ms=6000000"

\* C18: no step within an attempt lowers the recorded elapsed time; the step
\* that applies a line with an elapsed time smaller than the recorded one
\* leaves the recorded one, and with one that is not smaller records it; a
\* line with no elapsed time leaves it.
C18_ElapsedTimeMonotonic ==
    [][\A t \in Registered :
          /\ sup'[t].attempt = sup[t].attempt
             => tasks'[t].current_time >= tasks[t].current_time
          /\ AppliesLine(t)
             => LET elapsed == parsed_time(sup[t].line)
                IN  tasks'[t].current_time =
                        IF elapsed >= 0 /\ ~(elapsed < tasks[t].current_time)
                        THEN elapsed
                        ELSE tasks[t].current_time]_vars

\* C18's case: the elapsed time 1 s was delivered after 3 s and the recorded
\* elapsed time is 3 s.
C18_Witness ==
    \E t \in Registered :
        /\ Len(tasks[t].log) >= 4
        /\ tasks[t].log[Len(tasks[t].log) - 1] = "out_time=00:00:03.00"
        /\ tasks[t].log[Len(tasks[t].log)] = "time=00:00:01.00"
        /\ tasks[t].current_time = 3
        /\ sup[t].pc = "read"

\* C20: a step changes the duration only when the duration is 0 and the step
\* applies a line with a duration, which it takes; a duration that is not 0
\* is changed by no line, attempt or cancel.
C20_DurationSetOnce ==
    [][\A t \in Registered :
          tasks'[t].duration # tasks[t].duration
          => /\ tasks[t].duration = 0
             /\ AppliesLine(t)
             /\ parsed_duration(sup[t].line) > 0
             /\ tasks'[t].duration = parsed_duration(sup[t].line)]_vars

\* C20's case: a retry parsed a duration of 2 s and the duration of 4 s that
\* an earlier attempt parsed stays.
C20_Witness ==
    \E t \in Registered :
        /\ sup[t].attempt >= 1
        /\ sup[t].pc = "read"
        /\ tasks[t].log[Len(tasks[t].log)] = "Duration: 00:00:02.00"
        /\ tasks[t].log[3] = "Duration: 00:00:04.00"
        /\ tasks[t].duration = 4

C21_EveryTaskTerminates ==
    \A t \in OneTask :
        (t \in Registered)
            ~> ( /\ Returned(t)
                 /\ tasks[t].status \in Terminal
                 /\ Len(AttemptDescriptions(t)) <= 4 )

\* C21's case: the supervisor of a hardware task has returned after its
\* fourth attempt, and a cancel_all was the last call to return.
C21_Witness ==
    /\ ret.op = "cancel_all"
    /\ \E t \in Registered :
        /\ Returned(t)
        /\ tasks[t].encoder \in HardwareNames
        /\ Len(AttemptDescriptions(t)) = 4
        /\ tasks[t].status \in Terminal

\* The positions at which the supervisor is suspended: spawn() of line 1090,
\* next_line().await of line 1124, wait().await of line 1163 and
\* validate_output().await of line 1197.
SuspendedPcs == {"spawn", "read", "wait", "validate"}

\* The encoder process of the task runs on while its supervisor waits for it.
Stuck(t) == t \in Registered /\ os[t].state = "running" /\ sup[t].pc \in {"read", "wait"}

\* C22: a supervisor that is suspended (spawning, reading the next line,
\* waiting for the exit, running the validator) does not hold its task's
\* lock; and while the process of one task is stuck, the lock of another
\* task is held by nothing but that task's own supervisor inside one of its
\* critical sections, so that calls on the other task do not wait for the
\* stuck process.
C22_NoLockAcrossSuspension ==
    /\ \A t \in Registered : sup[t].pc \in SuspendedPcs => lock[t] = "free"
    /\ \A t, u \in Registered :
        (t # u /\ Stuck(t) /\ lock[u] # "free")
            => (lock[u] = "sup" /\ sup[u].pc \in LockPcs \ SuspendedPcs)

\* C22's case: the process of task 1 is stuck while a progress call on
\* task 2, whose supervisor is suspended too, has just returned a snapshot.
C22_Witness ==
    /\ Stuck(1)
    /\ 2 \in Registered
    /\ sup[2].pc \in SuspendedPcs
    /\ ret.op = "progress" /\ ret.id = 2 /\ ret.result = "Some"

\* The arguments that follow a flag in an argument list.
Follows(args, flag) == {args[i + 1] : i \in {j \in 1..(Len(args) - 1) : args[j] = flag}}

\* A command has been built for an attempt.
Built == ret.op = "args"

\* C23: when a profile is requested by a name the catalog does not have,
\* no profile is resolved and the command of every attempt is the command
\* of the standard path: the attempt's encoder as video codec when the
\* output takes video, the format's audio codec, and the same argument list
\* as for the request without a profile.
C23_UnknownPresetUsesStandardPath ==
    (Built /\ ret.cfg.is_adobe_preset /\ ret.cfg.preset \notin CatalogNames)
        => LET format_info == get_format_info(ret.cfg.output_ext)
           IN  /\ ret.cfg.adobe_preset = <<>>
               /\ format_info.supports_video
                    => Follows(ret.args, "-c:v")
                        = {attempt_encoder(ret.cfg.encoder, ret.attempt)}
               /\ Contains(ret.args, audio_args(format_info))
               /\ ret.args = build_args([ret.cfg EXCEPT !.is_adobe_preset = FALSE],
                                        ret.attempt)

\* C24: for a profile of the catalog, the command of every attempt but the
\* software fallback has the profile's encoder as its only video codec,
\* followed by the profile's options in their order and by its pixel
\* format; with the encoders prores_ks and dnxhd the audio codec is
\* pcm_s16le.
C24_KnownPresetWritesProfile ==
    (Built /\ ret.cfg.is_adobe_preset /\ ret.cfg.preset \in CatalogNames
           /\ ~is_cpu_fallback(ret.cfg.encoder, ret.attempt))
        => \E i \in DOMAIN get_adobe_presets :
            LET profile == get_adobe_presets[i]
            IN  /\ profile.name = ret.cfg.preset
                /\ Follows(ret.args, "-c:v") = {profile.encoder}
                /\ Contains(ret.args, <<"-c:v", profile.encoder>>
                                        \o profile.encoder_options
                                        \o <<"-pix_fmt", profile.pixel_format>>)
                /\ profile.encoder \in {"prores_ks", "dnxhd"}
                    => Follows(ret.args, "-c:a") = {"pcm_s16le"}

\* C24's case: attempt 2 of a hardware task with the profile prores_4444,
\* and the single attempt of a software task with a CineForm profile.
C24_Witness ==
    /\ Built /\ ret.cfg.is_adobe_preset
    /\ \/ /\ ret.cfg.encoder = "h264_nvenc" /\ ret.attempt = ForceNv12Attempt
          /\ ret.cfg.preset = "prores_4444"
          /\ Contains(ret.args, <<"-profile:v", "4", "-alpha_bits", "16">>)
       \/ /\ ret.cfg.encoder = "libx264" /\ ret.cfg.preset = "cineform_high"
          /\ Follows(ret.args, "-c:a") = {}

\* The arguments that address the graphics hardware.
HardwareArguments == {"-hwaccel", "-hwaccel_device", "-gpu", "cuda", "nv12"}

\* C25: with a profile of the catalog and a hardware encoder name, the
\* commands of attempts 0, 1 and 2 have no hardware argument: no hardware
\* decode, no device or GPU index, no forced nv12.
C25_PresetAttemptsHaveNoHardwareArgument ==
    (Built /\ ret.cfg.is_adobe_preset /\ ret.cfg.preset \in CatalogNames
           /\ is_gpu_encoder(ret.cfg.encoder)
           /\ ret.attempt < CpuFallbackAttempt)
        => \A i \in DOMAIN ret.args : ret.args[i] \notin HardwareArguments

\* The translation as the specification tables it.
nvenc_tier(name) ==
    CASE name \in {"ultrafast", "superfast", "veryfast", "faster"} -> "fast"
      [] name \in {"slow", "slower", "veryslow"} -> "slow"
      [] name \in NvencPresetNames -> name
      [] OTHER -> "medium"

\* C26: the preset written for an NVENC attempt is the tier the table gives
\* for the task's preset name, and translating it again leaves it as it is.
C26_NvencTranslationIdempotent ==
    (Built /\ ~ret.cfg.is_adobe_preset /\ is_nvenc(ret.cfg.encoder)
           /\ ~is_cpu_fallback(ret.cfg.encoder, ret.attempt)
           /\ get_format_info(ret.cfg.output_ext).supports_video)
        => \A written \in Follows(ret.args, "-preset") :
            /\ written = nvenc_tier(ret.cfg.preset)
            /\ translate_nvenc_preset(written) = written

\* Two extensions that differ in the case of their letters at most.
SameIgnoringCase(a, b) ==
    LET x == ExtChars(a)
        y == ExtChars(b)
    IN  /\ Len(x) = Len(y)
        /\ \A i \in DOMAIN x : lower_char(x[i]) = lower_char(y[i])

\* The extensions of the table (VIDEO_FORMATS and AUDIO_FORMATS).
TableExtensions ==
    {"mp4", "mkv", "avi", "mov", "wmv", "flv", "webm", "ogv"} \cup AudioOnlyExtensions

\* The records a resolution may return.
FormatInfos ==
    [container : {"mp4", "matroska", "avi", "mov", "asf", "flv", "webm", "ogg",
                  "mp3", "wav", "adts", "flac", "ipod"},
     default_video_codec : {"libx264", "wmv2", "libvpx-vp9", "libtheora", ""},
     default_audio_codec : {"aac", "mp3", "wmav2", "libopus", "libvorbis",
                            "libmp3lame", "pcm_s16le", "flac"},
     supports_video : BOOLEAN, supports_audio : BOOLEAN]

\* C27: every extension resolves to a FormatInfo; two spellings that differ
\* in case only, and the same spelling asked twice, resolve to the same
\* record, as does the lower-cased extension; and an extension that is not
\* in the table in any spelling, the empty one included, resolves to the
\* default mp4 / libx264 / aac with video and audio supported.
C27_FormatResolution ==
    ret.op = "format"
        => /\ ret.info \in FormatInfos
           /\ \A i \in DOMAIN ret.previous :
                SameIgnoringCase(ret.previous[i].extension, ret.extension)
                    => ret.previous[i].info = ret.info
           /\ get_format_info(to_lowercase(ret.extension)) = ret.info
           /\ (\A e \in TableExtensions : ~SameIgnoringCase(e, ret.extension))
                => ret.info = FormatInfo("mp4", "libx264", "aac", TRUE, TRUE)

\* C27's case: WebM after webm, both resolved to the webm container, and the
\* empty extension resolved to the default after an audio-only one.
C27_Witness ==
    /\ ret.op = "format"
    /\ \/ /\ ret.extension = "WebM"
          /\ ret.previous = <<[extension |-> "webm", info |-> ret.info]>>
          /\ ret.info.container = "webm"
       \/ /\ ret.extension = ""
          /\ ret.previous # <<>> /\ ~ret.previous[1].info.supports_video
          /\ ret.info.default_video_codec = "libx264"

\* A detection has built the adapters of a list of names.
Detected == ret.op = "detect"

\* The positions of a list of names whose name is not empty, and the number
\* of such positions before a position.
NonEmptyPositions(names) == {i \in DOMAIN names : trim(names[i]) # ""}
PositionAmongNonEmpty(names, i) == Cardinality({j \in NonEmptyPositions(names) : j < i})

\* The positions whose entry is to be kept: the name is neither empty nor
\* that of a virtual adapter.
KeptPositions(names) == {i \in NonEmptyPositions(names) : ~is_virtual_adapter(names[i])}

\* C28: the adapters built are the entries whose name is neither empty nor
\* virtual, one adapter for each such entry, repeated names included, in
\* the order of the list; the id of each is "gpu-<i>" with i the position of
\* the entry among the non-empty names, and no two ids are equal.
C28_AdaptersKeptAndNumbered ==
    Detected
        => LET names == ret.names
               adapters == ret.adapters
               kept == KeptPositions(names)
               \* the k-th kept position
               nth(k) == CHOOSE i \in kept : Cardinality({j \in kept : j < i}) = k - 1
           IN  /\ Len(adapters) = Cardinality(kept)
               /\ \A k \in DOMAIN adapters :
                    /\ adapters[k].name = trim(names[nth(k)])
                    /\ adapters[k].id = gpu_id(PositionAmongNonEmpty(names, nth(k)))
                    /\ adapters[k].name # ""
                    /\ ~is_virtual_adapter(adapters[k].name)
               /\ \A k, l \in DOMAIN adapters : adapters[k].id = adapters[l].id => k = l

\* C28's case: a virtual adapter before twice the same model: the two
\* entries of the model are kept, with the ids gpu-1 and gpu-2.
C28_Witness ==
    /\ Detected
    /\ ret.names = <<"Microsoft Basic Display Adapter", "NVIDIA GeForce RTX 4090",
                     "NVIDIA GeForce RTX 4090">>
    /\ Len(ret.adapters) = 2
    /\ ret.adapters[1].id = "gpu-1" /\ ret.adapters[2].id = "gpu-2"
    /\ ret.adapters[1].name = ret.adapters[2].name

\* The score of an adapter.
Score(adapter) == gpu_priority(adapter.name, adapter.gpu_type)

\* C29: no adapter is picked from an empty list; from any other list an
\* adapter of the list is picked whose score no adapter of the list exceeds,
\* so that with a discrete NVIDIA adapter in the list the adapter picked is
\* not an integrated Intel one, in whatever order the two are listed.
C29_PrimaryHasMaximalScore ==
    Detected
        => LET adapters == ret.adapters
               primary == ret.primary
           IN  /\ (adapters = <<>>) <=> (primary = <<>>)
               /\ adapters # <<>>
                    => /\ Len(primary) = 1
                       /\ \E k \in DOMAIN adapters : adapters[k] = primary[1]
                       /\ \A k \in DOMAIN adapters : Score(adapters[k]) <= Score(primary[1])
               /\ (\E k \in DOMAIN adapters :
                        /\ adapters[k].gpu_type = "Nvidia"
                        /\ ~is_likely_integrated(adapters[k].name))
                    => ~(/\ primary[1].gpu_type = "Intel"
                         /\ is_likely_integrated(primary[1].name))

\* C29's case: the integrated Intel adapter is listed before the NVIDIA
\* one, or after it, and the NVIDIA adapter is picked.
C29_Witness ==
    /\ Detected
    /\ \/ ret.names = <<"Intel(R) UHD Graphics", "NVIDIA GeForce GTX 1660 Ti">>
       \/ ret.names = <<"NVIDIA GeForce GTX 1660 Ti", "Intel(R) UHD Graphics">>
    /\ ret.primary # <<>>
    /\ ret.primary[1].name = "NVIDIA GeForce GTX 1660 Ti"
    /\ ret.primary[1].gpu_type = "Nvidia"

\* Why the supervisor leaves the attempt it is in for the next one.
RetryReason(t) ==
    CASE sup[t].pc = "spawn_failed" -> "spawn failure"
      [] sup[t].pc = "val_failed" -> "validation failure"
      [] sup[t].pc = "cleanup" /\ sup[t].status \in {"failure", "killed"} -> "non-zero exit"
      [] sup[t].pc = "cleanup" /\ sup[t].status = "wait_error" -> "wait failure"
      [] OTHER -> "none"

\* The supervisor begins an attempt: the index of the attempt is the number
\* of attempts begun before it, and its encoder, description and arguments
\* are those of the encoder name and the index.
BeginsInOrder(t) ==
    (sup[t].pc = "begin" /\ sup'[t].pc = "spawn")
        => LET e == tasks[t].encoder
               k == sup[t].attempt
           IN  /\ k = Len(AttemptDescriptions(t))
               /\ sup'[t].encoder = attempt_encoder(e, k)
               /\ tasks'[t].log = tasks[t].log \o <<log_msg(e, k), args_msg(e, k)>>

\* The supervisor moves to another index: it is the next index, the reason
\* is one of those given, and nothing of the reason is kept for the attempt
\* that follows.
MovesToNext(t, reasons) ==
    sup'[t].attempt # sup[t].attempt
        => /\ sup'[t].attempt = sup[t].attempt + 1
           /\ RetryReason(t) \in reasons
           /\ sup'[t] = [sup[t] EXCEPT !.pc = "begin", !.attempt = @ + 1,
                                       !.encoder = "", !.line = "",
                                       !.status = "", !.problem = ""]

\* C30: attempts are begun in the order 0, 1, 2, 3, none skipped and none
\* repeated; attempt k+1 is begun only after attempt k ended in a spawn
\* failure, a non-zero exit, a failure of the wait for the exit or a
\* validation failure; and the strategy of attempt k+1 is that of the
\* encoder name and the index, whichever the reason.
C30_AttemptsInOrder ==
    [][\A t \in Registered :
          /\ BeginsInOrder(t)
          /\ MovesToNext(t, {"spawn failure", "non-zero exit", "wait failure",
                             "validation failure"})]_vars

\* C30 as stated: attempt k+1 is begun only after a spawn failure, a
\* non-zero exit or a validation failure of attempt k.
C30_RetryOnlyAfterListedFailures ==
    [][\A t \in Registered :
          /\ BeginsInOrder(t)
          /\ MovesToNext(t, {"spawn failure", "non-zero exit",
                             "validation failure"})]_vars

\* C30's case: the fourth attempt of a hardware task is begun after a spawn
\* failure of attempt 0, a validation failure of attempt 1 and a non-zero
\* exit of attempt 2.
C30_Witness ==
    \E t \in Registered :
        /\ tasks[t].encoder = "h264_nvenc"
        /\ sup[t].pc = "spawn" /\ sup[t].attempt = CpuFallbackAttempt
        /\ sup[t].encoder = "libx264"
        /\ Len(AttemptDescriptions(t)) = GpuAttempts
        /\ SelectSeq(tasks[t].log, LAMBDA x : x \in {SpawnRetryLog, ValidationLog})
             = <<SpawnRetryLog, ValidationLog>>
        /\ tasks[t].error_message = ExitError

\* The arguments of a command, as a set.
Arguments(args) == {args[i] : i \in DOMAIN args}

\* C31: for a hardware task without a profile and an output that takes
\* video, the command asks for hardware decode on attempt 0 only, forces
\* nv12 on attempt 2 only, names the configured encoder as video codec on
\* attempts 0-2 and the software fallback on attempt 3, and has none of
\* -hwaccel, -hwaccel_device and -gpu on attempt 3.
C31_PerAttemptVariation ==
    (Built /\ ~ret.cfg.is_adobe_preset /\ is_gpu_encoder(ret.cfg.encoder)
           /\ get_format_info(ret.cfg.output_ext).supports_video)
        => /\ ("-hwaccel" \in Arguments(ret.args)) <=> (ret.attempt = 0)
           /\ Contains(ret.args, <<"-pix_fmt", "nv12">>) <=> (ret.attempt = 2)
           /\ ("nv12" \in Arguments(ret.args)) <=> (ret.attempt = 2)
           /\ ret.attempt \in 0..2 => Follows(ret.args, "-c:v") = {ret.cfg.encoder}
           /\ ret.attempt = 3
                => /\ Follows(ret.args, "-c:v") = {cpu_fallback_encoder(ret.cfg.encoder)}
                   /\ Follows(ret.args, "-c:v") \subseteq {"libx264", "libx265"}
                   /\ Arguments(ret.args) \cap {"-hwaccel", "-hwaccel_device", "-gpu"} = {}

\* C31's case: attempt 3 of an NVENC task with a GPU index, whose command
\* names libx264 and no GPU.
C31_Witness ==
    /\ Built /\ ~ret.cfg.is_adobe_preset
    /\ ret.cfg.encoder = "h264_nvenc" /\ ret.cfg.gpu_index = <<1>>
    /\ ret.cfg.output_ext = "mkv"
    /\ ret.attempt = 3
    /\ Contains(ret.args, <<"-c:v", "libx264", "-preset", ret.cfg.preset, "-c:a", "aac">>)

\* The position the supervisor comes from when it enters a position.
Enters(t, pc) == sup'[t].pc = pc /\ sup[t].pc # pc

\* C32: within an attempt the description and the arguments are logged,
\* then the process is spawned, then its pid is recorded on the task, then
\* the lines are read and applied one by one, and the exit is awaited only
\* when the stream has ended; the exit is handled after the wait.
C32_StepsInOrder ==
    [][\A t \in Registered :
          /\ Enters(t, "spawn")
                => /\ sup[t].pc = "begin"
                   /\ tasks'[t].log = tasks[t].log
                        \o <<log_msg(tasks[t].encoder, sup[t].attempt),
                             args_msg(tasks[t].encoder, sup[t].attempt)>>
          /\ Enters(t, "record")
                => sup[t].pc = "spawn" /\ os'[t].state = "running"
          /\ Enters(t, "read")
                => \/ sup[t].pc = "record" /\ tasks'[t].pid = os[t].pid /\ tasks[t].pid = 0
                   \/ sup[t].pc = "apply" /\ tasks'[t].log = Append(tasks[t].log, sup[t].line)
          /\ Enters(t, "apply") => sup[t].pc = "read"
          /\ Enters(t, "wait") => sup[t].pc = "read" /\ os[t].state = "exited"
          /\ Enters(t, "exit") => sup[t].pc = "wait" /\ os[t].state = "exited"
          /\ (Enters(t, "validate") \/ Enters(t, "cleanup")) => sup[t].pc = "exit"]_vars

\* C33: when the supervisor moves to the next attempt, after a spawn
\* failure, an exit that is not a success or a validation failure, the
\* output file is gone; and no process of a later attempt is spawned while
\* an output file of an earlier attempt exists.
C33_RetryStartsWithoutOutput ==
    [][\A t \in Registered :
          /\ sup'[t].attempt = sup[t].attempt + 1 => file'[t] = "absent"
          /\ (Enters(t, "record") /\ sup[t].attempt >= 1) => file[t] = "absent"]_vars

\* C33's case: attempt 1 of a hardware task begins, after the validator
\* refused what attempt 0 wrote, with no output file.
C33_Witness ==
    \E t \in Registered :
        /\ sup[t].attempt = 1 /\ sup[t].pc = "spawn"
        /\ ValidationLog \in {tasks[t].log[i] : i \in DOMAIN tasks[t].log}
        /\ file[t] = "absent"

\* Whether the sequence a is a prefix of the sequence b.
IsPrefix(a, b) == Len(a) <= Len(b) /\ SubSeq(b, 1, Len(a)) = a

\* The log of the snapshot a progress call has returned for the task t, the
\* empty log when the last call returned none.
SnapshotLog(r, t) ==
    IF r.op = "progress" /\ r.result = "Some" /\ r.id = t THEN r.snap[1].log ELSE <<>>

C35_NoSpawnOnceCancelled ==
    [][\A t \in Registered :
          tasks[t].status = "Cancelled"
            => /\ ~Enters(t, "spawn")
               /\ ~Enters(t, "record")]_vars

\* C36: whenever cancel or cancel_all has sent a kill to a process id, the
\* id is that of a process of the task that has not been reaped: the
\* process of the task's current attempt, running, killed or exited and
\* not yet waited for.
C36_KillTargetsUnreapedProcess ==
    (ret.op \in {"cancel", "cancel_all_kill", "cancel_all_cancel"} /\ ret.kill # 0)
        => /\ os[ret.id].pid = ret.kill
           /\ os[ret.id].state \in {"running", "killed", "exited"}

\* C37: once the supervisor of a task has returned, the status of the task
\* is Completed, Failed or Cancelled, no process handle and no process id
\* is recorded, and no step, a cancel, a cancel_all or a progress call
\* among them, changes a field of the task.
C37_ReturnedTaskIsFrozen ==
    [][\A t \in Registered :
          sup[t].pc = "done"
            => /\ tasks[t].status \in Terminal
               /\ tasks[t].pid = 0
               /\ ~tasks[t].process
               /\ t \in Registered'
               /\ tasks'[t] = tasks[t]]_vars

\* C37's case: the supervisor of a task has returned and a cancel or the
\* cancel pass of cancel_all has since been called on the task.
C37_Witness ==
    /\ ret.op \in {"cancel", "cancel_all_cancel"}
    /\ ret.id \in Registered
    /\ ret.result = "Ok"
    /\ sup[ret.id].pc = "done"
    /\ tasks[ret.id].status = "Completed"

\* C38: a task has at most one process that is spawned and not reaped: the
\* supervisor spawns the process of an attempt only when the task has no
\* process, the process of the attempt before having been waited for and
\* reaped.
C38_SpawnOnlyAfterReap ==
    [][\A t \in Registered :
          Enters(t, "record") => os[t] = NoProc]_vars

\* C39: under fair scheduling of the supervisor, the processes and the
\* threads of the calls, every call of the Manager that holds the registry
\* lock returns and releases it, and a supervisor that waits for the mutex
\* of its task comes to hold it.
C39_NoDeadlock ==
    /\ (mgr.op # "free") ~> (mgr.op = "free")
    /\ \A t \in OneTask :
          (t \in Registered /\ sup[t].pc \in LockPcs /\ ~Holds(t)) ~> Holds(t)

\* C39's case: a progress call holds the registry lock and waits for the
\* mutex of a task that the supervisor holds.
C39_Witness ==
    /\ mgr.op = "progress"
    /\ lock[mgr.id] = "sup"
    /\ sup[mgr.id].pc \in LockPcs

\* A step of the supervisor of the task t.
SupervisorStep(t) == sup'[t] # sup[t] \/ lock'[t] # lock[t]

\* C40: a cancel of one task and a step of the supervisor of one task leave
\* the record of every other registered task (status, progress fields, log,
\* process handle and process id) as it was, and a start leaves the record
\* of every task registered before as it was.
C40_TasksIndependent ==
    [][/\ \A t, u \in Registered :
            (t # u /\ (SupervisorStep(t) \/ (ret'.op = "cancel" /\ ret'.id = t)))
                => /\ u \in Registered'
                   /\ tasks'[u] = tasks[u]
       /\ ret'.op = "start"
            => \A u \in Registered : u \in Registered' /\ tasks'[u] = tasks[u]]_vars

\* C40's case: task 1 has just been cancelled while its process ran, and
\* task 2, started after it, is Running with its process id recorded and
\* its log written.
C40_Witness ==
    /\ ret.op = "cancel" /\ ret.id = 1 /\ ret.kill # 0
    /\ 2 \in Registered
    /\ tasks[1].status = "Cancelled"
    /\ tasks[2].status = "Running"
    /\ tasks[2].pid # 0
    /\ Len(tasks[2].log) >= 2

====
